---------------------------- MODULE Spec2Model ----------------------------
(***************************************************************************)
(* Model of the regulation parsers of loan-compliance-api: the three      *)
(* parser variants (UK FCA CONC, UK FCA FG21/1, EU EBA GL 2020/06), their  *)
(* section locators, clause segmenters and page attribution, and the      *)
(* RegulationClause / DocumentMetadata models they construct; the         *)
(* ParserFactory registry (SpecFactory) and the RegulationParserService    *)
(* with its parse history (SpecService, SpecHistory).                      *)
(*                                                                         *)
(* A text is a sequence of one-character strings ("\n" is the newline), so *)
(* that the regular expressions of the source are modelled by what they    *)
(* match on characters: line anchors, whitespace runs that cross lines,    *)
(* digit counts and substring tests.                                       *)
(***************************************************************************)
EXTENDS Integers, Sequences, FiniteSets, TLC

VARIABLES
    variant,        \* which parser class runs: "CONC", "FG21" or "EBA"
    file,           \* the document handed to validate / parse
    config,         \* ParserConfig: pdf_start_page and sections_to_extract
    pages,          \* pages_content: the non-empty pages, [page_number, text]
    total,          \* len(pages_content), empty pages included
    pc,             \* position in the running call
    sec,            \* index of the configured section being processed
    section_info,   \* result of _find_section_text_and_pages (found = FALSE: None)
    clauses,        \* clauses returned by the last segmentation / all_clauses
    call,           \* arguments of a direct call of a model or helper
    result,         \* outcome of the call: kind is "none", a value kind or an exception
    parsers,        \* ParserFactory._parsers: jurisdictions and their types, in dict order
    registered,     \* the (jurisdiction, document_type) pairs in the order they were registered
    parse_history,  \* RegulationParserService._parse_history
    logged          \* how many operations the service has logged

\* the state of the registry and of the service
service_vars == <<parsers, registered, parse_history, logged>>

\* the state of a parser call
parser_vars == <<variant, file, config, pages, total, sec, section_info, clauses>>

vars == <<variant, file, config, pages, total, pc, sec, section_info, clauses,
          call, result, parsers, registered, parse_history, logged>>

-----------------------------------------------------------------------------
(* Characters and strings                                                  *)

NL == "\n"

\* the em dash U+2014, one character of a text
EmDash == "--"

Digit == {"0", "1", "2", "3", "4", "5", "6", "7", "8", "9"}

UpperCase == {"A", "B", "C", "D", "E", "F", "G", "H", "I", "J", "K", "L", "M",
              "N", "O", "P", "Q", "R", "S", "T", "U", "V", "W", "X", "Y", "Z"}

LowerCase == {"a", "b", "c", "d", "e", "f", "g", "h", "i", "j", "k", "l", "m",
              "n", "o", "p", "q", "r", "s", "t", "u", "v", "w", "x", "y", "z"}

\* \s of the re module, over the characters the model uses
IsSpace(c) == c \in {" ", NL}

IsDigit(c) == c \in Digit

Min(S) == CHOOSE x \in S : \A y \in S : x <= y

Max(S) == CHOOSE x \in S : \A y \in S : x >= y

\* text[i:] of Python with i counted from 1
From(t, i) == SubSeq(t, i, Len(t))

\* t.startswith(s, i): s occurs in t at position i
StartsWithAt(t, i, s) ==
    /\ i >= 1
    /\ i + Len(s) - 1 <= Len(t)
    /\ \A k \in 1..Len(s) : t[i + k - 1] = s[k]

\* s in t
Contains(t, s) == \E i \in 1..(Len(t) + 1) : StartsWithAt(t, i, s)

\* t.endswith(s)
EndsWith(t, s) == Len(s) <= Len(t) /\ StartsWithAt(t, Len(t) - Len(s) + 1, s)

\* ^ under re.MULTILINE: position i is the start of a line
LineStart(t, i) == i = 1 \/ (i >= 2 /\ i <= Len(t) + 1 /\ t[i - 1] = NL)

\* greedy \s*: the first position at or after i that holds no whitespace
SkipSpace(t, i) ==
    IF i > Len(t) THEN i
    ELSE Min({j \in i..(Len(t) + 1) : j = Len(t) + 1 \/ ~IsSpace(t[j])})

\* greedy \d*: the first position at or after i that holds no digit
SkipDigits(t, i) ==
    IF i > Len(t) THEN i
    ELSE Min({j \in i..(Len(t) + 1) : j = Len(t) + 1 \/ ~IsDigit(t[j])})

\* str.strip()
Strip(t) ==
    LET keep == {i \in 1..Len(t) : ~IsSpace(t[i])}
    IN  IF keep = {} THEN <<>> ELSE SubSeq(t, Min(keep), Max(keep))

\* "\n".join(parts)
RECURSIVE Join(_)
Join(parts) ==
    IF parts = <<>> THEN <<>>
    ELSE IF Len(parts) = 1 THEN parts[1]
    ELSE parts[1] \o <<NL>> \o Join(Tail(parts))

\* str.split("\n"): the lines of t, at least one
RECURSIVE SplitLines(_)
SplitLines(t) ==
    LET nls == {i \in 1..Len(t) : t[i] = NL}
    IN  IF nls = {} THEN <<t>>
        ELSE <<SubSeq(t, 1, Min(nls) - 1)>> \o SplitLines(From(t, Min(nls) + 1))

\* str.isdigit()
IsDigits(t) == t # <<>> /\ \A i \in 1..Len(t) : IsDigit(t[i])

\* str.lower() on one character
LowerOf(c) ==
    LET ups == <<"A", "B", "C", "D", "E", "F", "G", "H", "I", "J", "K", "L", "M",
                 "N", "O", "P", "Q", "R", "S", "T", "U", "V", "W", "X", "Y", "Z">>
        lows == <<"a", "b", "c", "d", "e", "f", "g", "h", "i", "j", "k", "l", "m",
                  "n", "o", "p", "q", "r", "s", "t", "u", "v", "w", "x", "y", "z">>
    IN  IF c \in UpperCase THEN lows[CHOOSE k \in 1..26 : ups[k] = c] ELSE c

\* a literal matched under re.IGNORECASE at position i
StartsWithAtNoCase(t, i, s) ==
    /\ i >= 1
    /\ i + Len(s) - 1 <= Len(t)
    /\ \A k \in 1..Len(s) : LowerOf(t[i + k - 1]) = LowerOf(s[k])

DigitChars == <<"0", "1", "2", "3", "4", "5", "6", "7", "8", "9">>

DigitVal(c) == (CHOOSE k \in 1..10 : DigitChars[k] = c) - 1

\* int(s) for a string of digits
RECURSIVE ParseInt(_)
ParseInt(t) ==
    IF Len(t) = 1 THEN DigitVal(t[1])
    ELSE 10 * ParseInt(SubSeq(t, 1, Len(t) - 1)) + DigitVal(t[Len(t)])

\* str(n) for n >= 0
RECURSIVE FormatInt(_)
FormatInt(n) ==
    IF n < 10 THEN <<DigitChars[n + 1]>>
    ELSE FormatInt(n \div 10) \o <<DigitChars[(n % 10) + 1]>>

\* the positions of t, and one past the end (where \Z matches)
Positions(t) == 1..(Len(t) + 1)

-----------------------------------------------------------------------------
(* models.py: ClauseType and RegulationClause                              *)

\* ClauseType: REGULATION = "R" (the spec's RULE), GUIDANCE = "G", UNKNOWN
ClauseTypes == {"R", "G", "UNKNOWN"}

\* a validator that derives the type from the suffix even when one was passed
determine_clause_type_overriding(clause_id, clause_type) ==
    IF EndsWith(clause_id, <<" ", "R">>) THEN "R"
    ELSE IF EndsWith(clause_id, <<" ", "G">>) THEN "G"
    ELSE clause_type

\* RegulationClause.determine_clause_type, run after construction
determine_clause_type(clause_id, clause_type) ==
    IF clause_type # "UNKNOWN" THEN clause_type
    ELSE IF EndsWith(clause_id, <<" ", "R">>) THEN "R"
    ELSE IF EndsWith(clause_id, <<" ", "G">>) THEN "G"
    ELSE "UNKNOWN"

\* RegulationClause(...): clause_type defaults to UNKNOWN when it is not passed.
\* pos is match.start() of the marker (0-based; -1 for an appendix clause).
RegulationClause(section, clause_id, content, page_number, clause_type, pos) ==
    [section |-> section, clause_id |-> clause_id, content |-> content,
     page_number |-> page_number,
     clause_type |-> determine_clause_type(clause_id, clause_type),
     pos |-> pos]

\* None returned by a locator
None == [found |-> FALSE, text |-> <<>>, pages |-> <<>>]

SectionInfo(text, pgs) == [found |-> TRUE, text |-> text, pages |-> pgs]

\* p in section_pages
InPages(p, section_pages) == \E k \in 1..Len(section_pages) : section_pages[k] = p

\* the first position of t that satisfies M (re.search / the next finditer match),
\* 0 when there is none
FirstPos(S) == IF S = {} THEN 0 ELSE Min(S)

-----------------------------------------------------------------------------
(* parsers/factory.py: ParserFactory.  The registry is a dict of dicts; a  *)
(* dict keeps its keys in insertion order, so it is a sequence of entries. *)
(* A jurisdiction is a text; a document type and a class are names.        *)

Uk == <<"u", "k">>

Eu == <<"e", "u">>

\* ParserFactory._parsers as the class body leaves it (the keys Jurisdiction.UK
\* and Jurisdiction.EU hash and compare as "uk" and "eu")
DefaultParsers ==
    << [key |-> Uk,
        types |-> << [document_type |-> "FCA_CONC", parser_class |-> "UKFCACoNCParser"],
                     [document_type |-> "FCA_FG21", parser_class |-> "UKFCAFg21Parser"] >>],
       [key |-> Eu,
        types |-> << [document_type |-> "EBA_GL_2020_06",
                      parser_class |-> "EUEBAGl202006Parser"] >>] >>

\* the order in which the class body registers its parsers
DefaultRegistered ==
    << [jurisdiction |-> Uk, document_type |-> "FCA_CONC"],
       [jurisdiction |-> Uk, document_type |-> "FCA_FG21"],
       [jurisdiction |-> Eu, document_type |-> "EBA_GL_2020_06"] >>

-----------------------------------------------------------------------------
(* Subsection names: SUBSECTION_MAPPING and _find_subsection_name of the   *)
(* FG21 and the EBA parser.  A title is a name; a key is a text, matched   *)
(* against the end of a line.                                              *)

\* stands for the one character U+2019 of the FG21 table
Apostrophe == "'"

\* UKFCAFg21Parser.SUBSECTION_MAPPING, in declaration order
FgSubsectionMapping ==
    <<[key |-> <<"T", "h", "i", "s", " ", "G", "u", "i", "d", "a", "n", "c",
                 "e">>,
       title |->
         "This Guidance"],
      [key |-> <<"O", "u", "r", " ", "P", "r", "i", "n", "c", "i", "p", "l",
                 "e", "s", " ", "f", "o", "r", " ", "B", "u", "s", "i", "n",
                 "e", "s", "s", "e", "s">>,
       title |->
         "Our Principles for Businesses"],
      [key |-> <<"T", "r", "e", "a", "t", "i", "n", "g", " ", "C", "u", "s",
                 "t", "o", "m", "e", "r", "s", " ", "F", "a", "i", "r", "l",
                 "y">>,
       title |->
         "Treating Customers Fairly"],
      [key |-> <<"M", "o", "n", "i", "t", "o", "r", "i", "n", "g", " ", "f",
                 "i", "r", "m", "s", Apostrophe, " ", "t", "r", "e", "a", "t",
                 "m", "e", "n", "t", " ", "o", "f", " ", "v", "u", "l", "n",
                 "e", "r", "a", "b", "l", "e", " ", "c", "u", "s", "t", "o",
                 "m", "e", "r", "s">>,
       title |->
         "Monitoring firms' treatment of vulnerable customers"],
      [key |-> <<"t", "h", "a", "t", " ", "e", "x", "i", "s", "t", " ", "i",
                 "n", " ", "t", "h", "e", " ", "f", "i", "r", "m", Apostrophe,
                 "s", " ", "t", "a", "r", "g", "e", "t", " ", "m", "a", "r",
                 "k", "e", "t", " ", "a", "n", "d", " ", "c", "u", "s", "t",
                 "o", "m", "e", "r", " ", "b", "a", "s", "e">>,
       title |->
         "Understanding the nature and scale of characteristics of vulnerability that exist in the firm's target market and customer base"],
      [key |-> <<"c", "o", "n", "s", "u", "m", "e", "r", " ", "e", "x", "p",
                 "e", "r", "i", "e", "n", "c", "e", " ", "a", "n", "d", " ",
                 "o", "u", "t", "c", "o", "m", "e", "s">>,
       title |->
         "Understanding the impact of vulnerability on the needs of consumers in their target market and customer base, by asking themselves what types of harm or disadvantage their customers may be vulnerable to, and how this might affect the consumer experience and outcomes"],
      [key |-> <<"E", "x", "a", "m", "p", "l", "e", "s", " ", "o", "f", " ",
                 "h", "a", "r", "m", " ", "a", "n", "d", " ", "d", "i", "s",
                 "a", "d", "v", "a", "n", "t", "a", "g", "e", " ", "t", "h",
                 "a", "t", " ", "f", "i", "r", "m", "s", " ", "s", "h", "o",
                 "u", "l", "d", " ", "b", "e", " ", "a", "l", "e", "r", "t",
                 " ", "t", "o">>,
       title |->
         "Examples of harm and disadvantage that firms should be alert to"],
      [key |-> <<"E", "m", "b", "e", "d", "d", "i", "n", "g", " ", "t", "h",
                 "e", " ", "f", "a", "i", "r", " ", "t", "r", "e", "a", "t",
                 "m", "e", "n", "t", " ", "o", "f", " ", "v", "u", "l", "n",
                 "e", "r", "a", "b", "l", "e", " ", "c", "o", "n", "s", "u",
                 "m", "e", "r", "s", " ", "a", "c", "r", "o", "s", "s">>,
       title |->
         "Embedding the fair treatment of vulnerable consumers across the workforce"],
      [key |-> <<"r", "e", "c", "o", "g", "n", "i", "s", "e", " ", "a", "n",
                 "d", " ", "r", "e", "s", "p", "o", "n", "d", " ", "t", "o",
                 " ", "a", " ", "r", "a", "n", "g", "e", " ", "o", "f", " ",
                 "c", "h", "a", "r", "a", "c", "t", "e", "r", "i", "s", "t",
                 "i", "c", "s", " ", "o", "f", " ", "v", "u", "l", "n", "e",
                 "r", "a", "b", "i", "l", "i", "t", "y">>,
       title |->
         "Ensuring frontline staff have the necessary skills and capability to recognise and respond to a range of characteristics of vulnerability"],
      [key |-> <<"E", "n", "c", "o", "u", "r", "a", "g", "i", "n", "g", " ",
                 "d", "i", "s", "c", "l", "o", "s", "u", "r", "e">>,
       title |->
         "Encouraging disclosure"],
      [key |-> <<"R", "e", "c", "o", "r", "d", "i", "n", "g", " ", "a", "n",
                 "d", " ", "a", "c", "c", "e", "s", "s", "i", "n", "g", " ",
                 "i", "n", "f", "o", "r", "m", "a", "t", "i", "o", "n", " ",
                 "a", "b", "o", "u", "t", " ", "c", "o", "n", "s", "u", "m",
                 "e", "r", "s", Apostrophe, " ", "n", "e", "e", "d", "s">>,
       title |->
         "Recording and accessing information about consumers' needs"],
      [key |-> <<"d", "e", "a", "l", "i", "n", "g", " ", "w", "i", "t", "h",
                 " ", "v", "u", "l", "n", "e", "r", "a", "b", "l", "e", " ",
                 "c", "o", "n", "s", "u", "m", "e", "r", "s">>,
       title |->
         "Offering practical and emotional support to frontline staff dealing with vulnerable consumers"],
      [key |-> <<"P", "r", "o", "d", "u", "c", "t", " ", "a", "n", "d", " ",
                 "s", "e", "r", "v", "i", "c", "e", " ", "d", "e", "s", "i",
                 "g", "n">>,
       title |->
         "Product and service design"],
      [key |-> <<"c", "o", "n", "s", "u", "m", "e", "r", "s">>,
       title |->
         "Considering if features of products or services exploit vulnerable consumers"],
      [key |-> <<"i", "n", "f", "l", "e", "x", "i", "b", "i", "l", "i", "t",
                 "y", " ", "t", "h", "a", "t", " ", "c", "o", "u", "l", "d",
                 " ", "r", "e", "s", "u", "l", "t", " ", "i", "n", " ", "h",
                 "a", "r", "m", "f", "u", "l", " ", "i", "m", "p", "a", "c",
                 "t", "s">>,
       title |->
         "Designing products and services that meet evolving needs and avoiding inflexibility that could result in harmful impacts"],
      [key |-> <<"D", "e", "s", "i", "g", "n", "i", "n", "g", " ", "s", "a",
                 "l", "e", "s", " ", "p", "r", "o", "c", "e", "s", "s", "e",
                 "s", " ", "t", "h", "a", "t", " ", "m", "e", "e", "t", " ",
                 "c", "o", "n", "s", "u", "m", "e", "r", "s", Apostrophe, " ",
                 "n", "e", "e", "d", "s">>,
       title |->
         "Designing sales processes that meet consumers' needs"],
      [key |-> <<"a", "n", "d", " ", "s", "e", "r", "v", "i", "c", "e", " ",
                 "d", "e", "s", "i", "g", "n", " ", "p", "r", "o", "c", "e",
                 "s", "s">>,
       title |->
         "Taking vulnerable consumers into account at all stages of the product and service design process"],
      [key |-> <<"I", "d", "e", "a", " ", "g", "e", "n", "e", "r", "a", "t",
                 "i", "o", "n">>,
       title |->
         "Idea generation"],
      [key |-> <<"D", "e", "v", "e", "l", "o", "p", "m", "e", "n", "t">>,
       title |->
         "Development"],
      [key |-> <<"T", "e", "s", "t", "i", "n", "g">>,
       title |->
         "Testing"],
      [key |-> <<"L", "a", "u", "n", "c", "h">>,
       title |->
         "Launch"],
      [key |-> <<"R", "e", "v", "i", "e", "w">>,
       title |->
         "Review"],
      [key |-> <<"P", "r", "o", "d", "u", "c", "t", "s", " ", "s", "o", "l",
                 "d", " ", "t", "h", "r", "o", "u", "g", "h", " ", "i", "n",
                 "t", "e", "r", "m", "e", "d", "i", "a", "r", "i", "e", "s",
                 " ", "i", "n", " ", "d", "i", "s", "t", "r", "i", "b", "u",
                 "t", "i", "o", "n", " ", "c", "h", "a", "i", "n", "s">>,
       title |->
         "Products sold through intermediaries in distribution chains"],
      [key |-> <<"C", "u", "s", "t", "o", "m", "e", "r", " ", "s", "e", "r",
                 "v", "i", "c", "e">>,
       title |->
         "Customer service"],
      [key |-> <<"v", "u", "l", "n", "e", "r", "a", "b", "l", "e", " ", "c",
                 "o", "n", "s", "u", "m", "e", "r", "s", " ", "t", "o", " ",
                 "d", "i", "s", "c", "l", "o", "s", "e", " ", "t", "h", "e",
                 "i", "r", " ", "n", "e", "e", "d", "s">>,
       title |->
         "Setting up systems and processes in ways that support and enable vulnerable consumers to disclose their needs"],
      [key |-> <<"n", "e", "e", "d", "s", " ", "o", "f", " ", "v", "u", "l",
                 "n", "e", "r", "a", "b", "l", "e", " ", "c", "o", "n", "s",
                 "u", "m", "e", "r", "s">>,
       title |->
         "Delivering appropriate customer service that responds flexibly to the needs of vulnerable consumers"],
      [key |-> <<"T", "e", "l", "l", "i", "n", "g", " ", "c", "o", "n", "s",
                 "u", "m", "e", "r", "s", " ", "a", "b", "o", "u", "t", " ",
                 "t", "h", "e", " ", "s", "u", "p", "p", "o", "r", "t", " ",
                 "a", "v", "a", "i", "l", "a", "b", "l", "e", " ", "t", "o",
                 " ", "t", "h", "e", "m">>,
       title |->
         "Telling consumers about the support available to them"],
      [key |-> <<"S", "u", "p", "p", "o", "r", "t", "i", "n", "g", " ", "d",
                 "e", "c", "i", "s", "i", "o", "n", "-", "m", "a", "k", "i",
                 "n", "g", " ", "a", "n", "d", " ", "t", "h", "i", "r", "d",
                 " ", "p", "a", "r", "t", "y", " ", "r", "e", "p", "r", "e",
                 "s", "e", "n", "t", "a", "t", "i", "o", "n">>,
       title |->
         "Supporting decision-making and third party representation"],
      [key |-> <<"T", "h", "i", "r", "d", " ", "p", "a", "r", "t", "y", " ",
                 "r", "e", "p", "r", "e", "s", "e", "n", "t", "a", "t", "i",
                 "o", "n">>,
       title |->
         "Third party representation"],
      [key |-> <<"S", "p", "e", "c", "i", "a", "l", "i", "s", "t", " ", "S",
                 "u", "p", "p", "o", "r", "t">>,
       title |->
         "Specialist Support"],
      [key |-> <<"g", "o", "o", "d", " ", "c", "u", "s", "t", "o", "m", "e",
                 "r", " ", "s", "e", "r", "v", "i", "c", "e">>,
       title |->
         "Putting in place systems and processes that support the delivery of good customer service"],
      [key |-> <<"C", "o", "m", "m", "u", "n", "i", "c", "a", "t", "i", "o",
                 "n", "s">>,
       title |->
         "Communications"],
      [key |-> <<"s", "e", "r", "v", "i", "c", "e", "s", " ", "a", "r", "e",
                 " ", "p", "r", "e", "s", "e", "n", "t", "e", "d", " ", "i",
                 "n", " ", "w", "a", "y", "s", " ", "t", "h", "a", "t", " ",
                 "a", "r", "e", " ", "u", "n", "d", "e", "r", "s", "t", "a",
                 "n", "d", "a", "b", "l", "e", " ", "f", "o", "r", " ", "c",
                 "o", "n", "s", "u", "m", "e", "r", "s">>,
       title |->
         "Ensuring all communications and information about products and services are presented in ways that are understandable for consumers"],
      [key |-> <<"a", "c", "c", "o", "u", "n", "t", " ", "o", "f", " ", "t",
                 "h", "e", "i", "r", " ", "n", "e", "e", "d", "s">>,
       title |->
         "Considering how to communicate with vulnerable consumers, taking account of their needs"],
      [key |-> <<"n", "e", "e", "d", "s", " ", "o", "f", " ", "v", "u", "l",
                 "n", "e", "r", "a", "b", "l", "e", " ", "c", "o", "n", "s",
                 "u", "m", "e", "r", "s", " ", "a", "r", "e", " ", "n", "o",
                 "t", " ", "m", "e", "t">>,
       title |->
         "Implementing appropriate processes to evaluate where the needs of vulnerable consumers are not met"],
      [key |-> <<"M", "a", "n", "a", "g", "e", "m", "e", "n", "t", " ", "i",
                 "n", "f", "o", "r", "m", "a", "t", "i", "o", "n">>,
       title |->
         "Management information"]>>

\* EUEBAGl202006Parser.SUBSECTION_MAPPING, in declaration order
EbaSubsectionMapping ==
    <<[key |-> <<"c", "r", "e", "d", "i", "t", " ", "r", "i", "s", "k", " ",
                 "m", "o", "n", "i", "t", "o", "r", "i", "n", "g", " ", "f",
                 "r", "a", "m", "e", "w", "o", "r", "k">>,
       title |->
         "General provisions for the credit risk monitoring framework"],
      [key |-> <<"m", "o", "n", "i", "t", "o", "r", "i", "n", "g", " ", "f",
                 "r", "a", "m", "e", "w", "o", "r", "k">>,
       title |->
         "General provisions for the credit risk monitoring framework"],
      [key |-> <<"e", "x", "p", "o", "s", "u", "r", "e", "s", " ", "a", "n",
                 "d", " ", "b", "o", "r", "r", "o", "w", "e", "r", "s">>,
       title |->
         "Monitoring of credit exposures and borrowers"],
      [key |-> <<"c", "r", "e", "d", "i", "t", " ", "e", "x", "p", "o", "s",
                 "u", "r", "e", "s", " ", "a", "n", "d", " ", "b", "o", "r",
                 "r", "o", "w", "e", "r", "s">>,
       title |->
         "Monitoring of credit exposures and borrowers"],
      [key |-> <<"r", "e", "v", "i", "e", "w", " ", "o", "f", " ", "b", "o",
                 "r", "r", "o", "w", "e", "r", "s">>,
       title |->
         "Regular credit review of borrowers"],
      [key |-> <<"c", "r", "e", "d", "i", "t", " ", "r", "e", "v", "i", "e",
                 "w", " ", "o", "f", " ", "b", "o", "r", "r", "o", "w", "e",
                 "r", "s">>,
       title |->
         "Regular credit review of borrowers"],
      [key |-> <<"o", "f", " ", "c", "o", "v", "e", "n", "a", "n", "t", "s">>,
       title |->
         "Monitoring of covenants"],
      [key |-> <<"m", "o", "n", "i", "t", "o", "r", "i", "n", "g", " ", "o",
                 "f", " ", "c", "o", "v", "e", "n", "a", "n", "t", "s">>,
       title |->
         "Monitoring of covenants"],
      [key |-> <<"e", "a", "r", "l", "y", " ", "w", "a", "r", "n", "i", "n",
                 "g", " ", "i", "n", "d", "i", "c", "a", "t", "o", "r", "s",
                 "/", "w", "a", "t", "c", "h", " ", "l", "i", "s", "t", "s",
                 " ", "i", "n", " ", "c", "r", "e", "d", "i", "t", " ", "m",
                 "o", "n", "i", "t", "o", "r", "i", "n", "g">>,
       title |->
         "Use of early warning indicators/watch lists in credit monitoring"],
      [key |-> <<"w", "a", "t", "c", "h", " ", "l", "i", "s", "t", "s", " ",
                 "i", "n", " ", "c", "r", "e", "d", "i", "t", " ", "m", "o",
                 "n", "i", "t", "o", "r", "i", "n", "g">>,
       title |->
         "Use of early warning indicators/watch lists in credit monitoring"],
      [key |-> <<"e", "s", "c", "a", "l", "a", "t", "i", "o", "n", " ", "p",
                 "r", "o", "c", "e", "s", "s", " ", "o", "n", " ", "t", "r",
                 "i", "g", "g", "e", "r", "e", "d", " ", "E", "W", "I", "s">>,
       title |->
         "Follow-up and escalation process on triggered EWIs"],
      [key |-> <<"p", "r", "o", "c", "e", "s", "s", " ", "o", "n", " ", "t",
                 "r", "i", "g", "g", "e", "r", "e", "d", " ", "E", "W", "I",
                 "s">>,
       title |->
         "Follow-up and escalation process on triggered EWIs"]>>

\* range(min(5, len(lines_before))) of the FG21 parser
FgLinesBefore == 5

\* range(min(10, len(lines_before))) of the EBA parser
EbaLinesBefore == 10

\* line.endswith(line_ending), or line.lower().endswith(line_ending.lower())
LineEndsWith(line, line_ending, nocase) ==
    /\ Len(line_ending) <= Len(line)
    /\ IF nocase
       THEN StartsWithAtNoCase(line, Len(line) - Len(line_ending) + 1, line_ending)
       ELSE StartsWithAt(line, Len(line) - Len(line_ending) + 1, line_ending)

\* the keys of a table that match the end of a line, by their position
MatchingKeys(mapping, line, nocase) ==
    {k \in 1..Len(mapping) : LineEndsWith(line, mapping[k].key, nocase)}

\* a lookup that returns the title of the longest key that matches the line,
\* the first declared one among the longest
find_subsection_name_longest(mapping, nocase, window, section_text, clause_start_pos) ==
    LET lines_before == SplitLines(SubSeq(section_text, 1, clause_start_pos))
        n == Len(lines_before)
        hits == {k \in 1..n :
                   /\ k > n - window
                   /\ MatchingKeys(mapping, Strip(lines_before[k]), nocase) # {}}
        keys == MatchingKeys(mapping, Strip(lines_before[Max(hits)]), nocase)
    IN  IF clause_start_pos = 0 \/ hits = {} THEN ""
        ELSE mapping[Min({k \in keys :
                        \A j \in keys : Len(mapping[j].key) <= Len(mapping[k].key)})].title

\* _find_subsection_name: the lines before the clause are tried from the last
\* one backwards, at most window of them; the first line that a key matches
\* decides, by the first key of the table that matches it
find_subsection_name(mapping, nocase, window, section_text, clause_start_pos) ==
    LET lines_before == SplitLines(SubSeq(section_text, 1, clause_start_pos))
        n == Len(lines_before)
        hits == {k \in 1..n :
                   /\ k > n - window
                   /\ MatchingKeys(mapping, Strip(lines_before[k]), nocase) # {}}
    IN  IF clause_start_pos = 0 \/ hits = {} THEN ""
        ELSE mapping[Min(MatchingKeys(mapping, Strip(lines_before[Max(hits)]),
                                      nocase))].title

\* if new_subsection: current_subsection_name = new_subsection, forgetting the
\* current name when the lookup finds nothing
CurrentSubsectionNameForgetting(new_subsection, current_subsection_name) ==
    new_subsection

\* if new_subsection: current_subsection_name = new_subsection
CurrentSubsectionName(new_subsection, current_subsection_name) ==
    IF new_subsection # "" THEN new_subsection ELSE current_subsection_name

\* the clause with the subsection_name it is constructed with
WithSubsection(clause, subsection_name) ==
    [section |-> clause.section, clause_id |-> clause.clause_id,
     subsection_name |-> subsection_name, content |-> clause.content,
     page_number |-> clause.page_number, clause_type |-> clause.clause_type,
     pos |-> clause.pos]

-----------------------------------------------------------------------------
(* parsers/eu/eu_eba_gl_2020_06.py: EUEBAGl202006Parser                    *)

EbaAnnex == <<"A", "n", "n", "e", "x">>

EbaParagraph240 == <<"2", "4", "0", ".">>

\* the page number from which a header is taken as real content
EbaContentPage == 50

\* start_pattern ^{section_number}\.?\s+{title} (IGNORECASE, MULTILINE) matched
\* at position i: the position after the match, 0 when it does not match
EbaStartMatchEnd(t, i, section_number, section_title) ==
    LET a == i + Len(section_number)
        b == IF a <= Len(t) /\ t[a] = "." THEN a + 1 ELSE a
        c == SkipSpace(t, b)
    IN  IF /\ LineStart(t, i)
           /\ StartsWithAtNoCase(t, i, section_number)
           /\ c > b
           /\ StartsWithAtNoCase(t, c, section_title)
        THEN c + Len(section_title)
        ELSE 0

\* end_pattern ^{next_section}\.?\s+ matched at position i
EbaEndMatches(t, i, next_section) ==
    LET a == i + Len(next_section)
        b == IF a <= Len(t) /\ t[a] = "." THEN a + 1 ELSE a
    IN  /\ LineStart(t, i)
        /\ StartsWithAtNoCase(t, i, next_section)
        /\ b <= Len(t)
        /\ IsSpace(t[b])

\* a page loop that takes the first page with the header, table of contents or not
EbaLocatePageAnyHeader(st, page, section_number, section_title) ==
    LET text == page.text
        s == FirstPos({i \in Positions(text) :
                 EbaStartMatchEnd(text, i, section_number, section_title) > 0})
        e == IF IsDigits(section_number)
             THEN FirstPos({i \in Positions(text) :
                     EbaEndMatches(text, i, FormatInt(ParseInt(section_number) + 1))})
             ELSE 0
    IN  IF text = <<>> THEN st
        ELSE IF ~st.in_section
        THEN IF s > 0
             THEN [st EXCEPT !.in_section = TRUE,
                      !.pages = Append(@, page.page_number),
                      !.parts = Append(@, Strip(From(text,
                          EbaStartMatchEnd(text, s, section_number, section_title))))]
             ELSE st
        ELSE IF e > 0
        THEN [st EXCEPT !.parts = Append(@, Strip(SubSeq(text, 1, e - 1))),
                        !.broke = TRUE]
        ELSE [st EXCEPT !.pages = Append(@, page.page_number),
                        !.parts = Append(@, Strip(text))]

\* one iteration of the page loop of _find_section_text_and_pages; st carries
\* in_section, section_text_parts, section_pages and whether the loop has broken
EbaLocatePage(st, page, section_number, section_title) ==
    LET text == page.text
        s == FirstPos({i \in Positions(text) :
                 EbaStartMatchEnd(text, i, section_number, section_title) > 0})
        e == IF IsDigits(section_number)
             THEN FirstPos({i \in Positions(text) :
                     EbaEndMatches(text, i, FormatInt(ParseInt(section_number) + 1))})
             ELSE 0
    IN  IF text = <<>> THEN st
        ELSE IF ~st.in_section
        THEN IF /\ s > 0
                /\ \/ Contains(text, EbaParagraph240)
                   \/ page.page_number >= EbaContentPage
             THEN [st EXCEPT !.in_section = TRUE,
                      !.pages = Append(@, page.page_number),
                      !.parts = Append(@, Strip(From(text,
                          EbaStartMatchEnd(text, s, section_number, section_title))))]
             ELSE st
        ELSE IF e > 0
        THEN [st EXCEPT !.parts = Append(@, Strip(SubSeq(text, 1, e - 1))),
                        !.broke = TRUE]
        ELSE [st EXCEPT !.pages = Append(@, page.page_number),
                        !.parts = Append(@, Strip(text))]

LocateStart == [in_section |-> FALSE, parts |-> <<>>, pages |-> <<>>, broke |-> FALSE]

RECURSIVE EbaLocateLoop(_, _, _, _, _)
EbaLocateLoop(st, ps, k, section_number, section_title) ==
    IF k > Len(ps) \/ st.broke THEN st
    ELSE EbaLocateLoop(EbaLocatePage(st, ps[k], section_number, section_title),
                       ps, k + 1, section_number, section_title)

\* EUEBAGl202006Parser._find_section_text_and_pages
EbaFindSection(pages_content, section_number, section_title) ==
    LET st == EbaLocateLoop(LocateStart, pages_content, 1, section_number, section_title)
    IN  IF st.parts = <<>> THEN None ELSE SectionInfo(Join(st.parts), st.pages)

\* a marker ^(\d+)\.\s+ that takes a number of any length
EbaMarkerDigitsAnyLength(t, i) ==
    LET d == SkipDigits(t, i)
    IN  IF /\ LineStart(t, i)
           /\ d > i
           /\ d + 1 <= Len(t)
           /\ t[d] = "."
           /\ IsSpace(t[d + 1])
        THEN d - i
        ELSE 0

\* ^(\d{2,3})\. \s+ at position i: the number of digits of group 1 (3 is tried
\* before 2), 0 when the marker does not match
EbaMarkerDigits(t, i) ==
    LET fits(n) == /\ i + n + 1 <= Len(t)
                   /\ \A k \in 0..(n - 1) : IsDigit(t[i + k])
                   /\ t[i + n] = "."
                   /\ IsSpace(t[i + n + 1])
    IN  IF ~LineStart(t, i) THEN 0
        ELSE IF fits(3) THEN 3
        ELSE IF fits(2) THEN 2
        ELSE 0

\* the lookahead (?=^\d{2,3}\.\s+|^Annex|^\d+\s+<em dash>|^{next}\.\s+|\Z) at position e
EbaLookahead(t, e, next_section) ==
    \/ e = Len(t) + 1
    \/ /\ LineStart(t, e)
       /\ \/ EbaMarkerDigits(t, e) > 0
          \/ StartsWithAt(t, e, EbaAnnex)
          \/ LET d == SkipDigits(t, e)
                 w == SkipSpace(t, d)
             IN  d > e /\ w > d /\ w <= Len(t) /\ t[w] = EmDash
          \/ LET a == e + Len(next_section)
             IN  /\ StartsWithAt(t, e, next_section)
                 /\ a + 1 <= Len(t)
                 /\ t[a] = "."
                 /\ IsSpace(t[a + 1])

\* one line of _clean_clause_content survives
KeepContentLine(line) ==
    /\ line # <<>>
    /\ Len(line) >= 3
    /\ ~IsDigits(line)
    /\ \E k \in 1..Len(line) : ~(line[k] \in {".", "-"} \/ IsSpace(line[k]))

\* re.sub(r"\n\s*\n\s*\n", "\n\n", t): a whitespace run that starts with a newline
\* and holds three newlines or more is replaced, up to its last newline, by two
RECURSIVE CollapseBlank(_)
CollapseBlank(t) ==
    LET hit == {i \in 1..Len(t) :
                  /\ t[i] = NL
                  /\ Cardinality({j \in i..(SkipSpace(t, i) - 1) : t[j] = NL}) >= 3}
    IN  IF hit = {} THEN t
        ELSE LET i == Min(hit)
                 last == Max({j \in i..(SkipSpace(t, i) - 1) : t[j] = NL})
             IN  SubSeq(t, 1, i - 1) \o <<NL, NL>> \o CollapseBlank(From(t, last + 1))

\* _clean_clause_content (the same code in the EBA and the FG21 parser)
CleanClauseContent(content) ==
    LET lines == SplitLines(content)
        stripped == [k \in 1..Len(lines) |-> Strip(lines[k])]
        kept == SelectSeq(stripped, KeepContentLine)
    IN  Strip(CollapseBlank(Join(kept)))

\* a search that takes the first page with the clause id, of the section or not
FindClausePageNumberAnyPage(clause_id, section_pages, pages_content) ==
    LET hits == {k \in 1..Len(pages_content) :
                    Contains(pages_content[k].text, clause_id)}
    IN  IF hits # {} THEN pages_content[Min(hits)].page_number
        ELSE IF section_pages # <<>> THEN section_pages[1]
        ELSE -1

\* _find_clause_page_number (the same code in the EBA and the FG21 parser)
FindClausePageNumber(clause_id, section_pages, pages_content) ==
    LET hits == {k \in 1..Len(pages_content) :
                    /\ InPages(pages_content[k].page_number, section_pages)
                    /\ Contains(pages_content[k].text, clause_id)}
    IN  IF hits # {} THEN pages_content[Min(hits)].page_number
        ELSE IF section_pages # <<>> THEN section_pages[1]
        ELSE -1

\* the finditer loop of _extract_clauses_from_section over section_text from
\* position from on
\* current is current_subsection_name.
RECURSIVE EbaClauseLoop(_, _, _, _, _, _)
EbaClauseLoop(t, from, section_number, section_pages, pages_content, current) ==
    LET i == FirstPos({j \in from..Len(t) : EbaMarkerDigits(t, j) > 0})
        n == EbaMarkerDigits(t, i)
        cs == SkipSpace(t, i + n + 1)
        ce == Min({e \in cs..(Len(t) + 1) :
                     EbaLookahead(t, e, FormatInt(ParseInt(section_number) + 1))})
        clause_id == Strip(SubSeq(t, i, i + n - 1))
        name == CurrentSubsectionName(
                    find_subsection_name(EbaSubsectionMapping, TRUE, EbaLinesBefore,
                                         t, i - 1),
                    current)
    IN  IF i = 0 THEN <<>>
        ELSE <<WithSubsection(
                   RegulationClause(section_number, clause_id,
                       CleanClauseContent(Strip(SubSeq(t, cs, ce - 1))),
                       FindClausePageNumber(clause_id, section_pages, pages_content),
                       "R", i - 1),
                   name)>>
             \o EbaClauseLoop(t, ce, section_number, section_pages, pages_content,
                              name)

\* EUEBAGl202006Parser._extract_clauses_from_section
EbaExtractClauses(info, section_number, pages_content) ==
    EbaClauseLoop(info.text, 1, section_number, info.pages, pages_content, "")

-----------------------------------------------------------------------------
(* parsers/uk_fca_conc.py: UKFCACoNCParser                                 *)

Seven == <<"7">>

ConcSection7Start == <<"7", ".", "1">>

ConcApplication == <<"A", "p", "p", "l", "i", "c", "a", "t", "i", "o", "n">>

\* [a-zA-Z\s]{10,}: the fewest title characters after the capital
ConcHeadingTail == 10

IsLetterOrSpace(c) == c \in UpperCase \/ c \in LowerCase \/ IsSpace(c)

\* start_pattern at position i: ^\s*7\.1\s+Application for section 7, else
\* ^\s*{section_number}\s+{section_title} (IGNORECASE, MULTILINE); the position
\* after the match, 0 when it does not match
ConcStartMatchEnd(t, i, section_number, section_title) ==
    LET num == IF section_number = Seven THEN ConcSection7Start ELSE section_number
        title == IF section_number = Seven THEN ConcApplication ELSE section_title
        j == SkipSpace(t, i)
        k == j + Len(num)
        w == SkipSpace(t, k)
    IN  IF /\ LineStart(t, i)
           /\ StartsWithAtNoCase(t, j, num)
           /\ w > k
           /\ StartsWithAtNoCase(t, w, title)
        THEN w + Len(title)
        ELSE 0

\* group 1 of end_pattern, (\d{1,2}(?:\.\d{1,2}[A-Z]?)?), read at position j: the
\* position after it, 0 when what follows cannot be \s+
ConcHeadingNumberEnd(t, j) ==
    LET d == SkipDigits(t, j)
        e == SkipDigits(t, d + 1)
        f == IF e <= Len(t) /\ t[e] \in UpperCase THEN e + 1 ELSE e
        sub == /\ d <= Len(t) /\ t[d] = "."
               /\ e - (d + 1) \in {1, 2}
               /\ f <= Len(t) /\ IsSpace(t[f])
    IN  IF ~(d - j \in {1, 2}) THEN 0
        ELSE IF sub THEN f
        ELSE IF d <= Len(t) /\ IsSpace(t[d]) THEN d
        ELSE 0

\* end_pattern ^\s*(\d{1,2}(?:\.\d{1,2}[A-Z]?)?)\s+[A-Z][a-zA-Z\s]{10,} (MULTILINE)
\* matched at position i
ConcEndMatches(t, i) ==
    LET j == SkipSpace(t, i)
        g == ConcHeadingNumberEnd(t, j)
        w == SkipSpace(t, g)
    IN  /\ LineStart(t, i)
        /\ j <= Len(t)
        /\ g > 0
        /\ w <= Len(t) /\ t[w] \in UpperCase
        /\ w + ConcHeadingTail <= Len(t)
        /\ \A k \in 1..ConcHeadingTail : IsLetterOrSpace(t[w + k])

\* match.group(1) of end_pattern for the match that starts at i
ConcEndGroup(t, i) ==
    LET j == SkipSpace(t, i)
    IN  SubSeq(t, j, ConcHeadingNumberEnd(t, j) - 1)

\* s.split(".")[0]
BeforeDot(s) ==
    LET dots == {k \in 1..Len(s) : s[k] = "."}
    IN  IF dots = {} THEN s ELSE SubSeq(s, 1, Min(dots) - 1)

\* whether the heading found on a page inside the section ends the section
ConcEndsSection(section_number, next_section_full) ==
    IF section_number = Seven
    THEN BeforeDot(next_section_full) = <<"8">>
    ELSE \/ BeforeDot(next_section_full) # BeforeDot(section_number)
         \/ ~StartsWithAt(next_section_full, 1, section_number \o <<".">>)

\* a page loop that does not skip the pages without text
ConcLocatePageKeepingEmpty(st, page, section_number, section_title) ==
    LET text == page.text
        s == FirstPos({i \in Positions(text) :
                 ConcStartMatchEnd(text, i, section_number, section_title) > 0})
        e == FirstPos({i \in Positions(text) : ConcEndMatches(text, i)})
    IN  IF ~st.in_section
        THEN IF s > 0
             THEN [st EXCEPT !.in_section = TRUE,
                      !.pages = Append(@, page.page_number),
                      !.parts = Append(@, Strip(From(text,
                          ConcStartMatchEnd(text, s, section_number, section_title))))]
             ELSE st
        ELSE IF e > 0 /\ ConcEndsSection(section_number, ConcEndGroup(text, e))
        THEN [st EXCEPT !.parts = Append(@, Strip(SubSeq(text, 1, e - 1))),
                        !.broke = TRUE]
        ELSE [st EXCEPT !.pages = Append(@, page.page_number),
                        !.parts = Append(@, Strip(text))]

\* one iteration of the page loop of _find_section_text_and_pages
ConcLocatePage(st, page, section_number, section_title) ==
    LET text == page.text
        s == FirstPos({i \in Positions(text) :
                 ConcStartMatchEnd(text, i, section_number, section_title) > 0})
        e == FirstPos({i \in Positions(text) : ConcEndMatches(text, i)})
    IN  IF text = <<>> THEN st
        ELSE IF ~st.in_section
        THEN IF s > 0
             THEN [st EXCEPT !.in_section = TRUE,
                      !.pages = Append(@, page.page_number),
                      !.parts = Append(@, Strip(From(text,
                          ConcStartMatchEnd(text, s, section_number, section_title))))]
             ELSE st
        ELSE IF e > 0 /\ ConcEndsSection(section_number, ConcEndGroup(text, e))
        THEN [st EXCEPT !.parts = Append(@, Strip(SubSeq(text, 1, e - 1))),
                        !.broke = TRUE]
        ELSE [st EXCEPT !.pages = Append(@, page.page_number),
                        !.parts = Append(@, Strip(text))]

RECURSIVE ConcLocateLoop(_, _, _, _, _)
ConcLocateLoop(st, ps, k, section_number, section_title) ==
    IF k > Len(ps) \/ st.broke THEN st
    ELSE ConcLocateLoop(ConcLocatePage(st, ps[k], section_number, section_title),
                        ps, k + 1, section_number, section_title)

\* a locator that returns None when the joined text is empty, not when no part
\* was collected
ConcFindSectionNeedsText(pages_content, section_number, section_title) ==
    LET st == ConcLocateLoop(LocateStart, pages_content, 1, section_number, section_title)
    IN  IF Join(st.parts) = <<>> THEN None ELSE SectionInfo(Join(st.parts), st.pages)

\* UKFCACoNCParser._find_section_text_and_pages
ConcFindSection(pages_content, section_number, section_title) ==
    LET st == ConcLocateLoop(LocateStart, pages_content, 1, section_number, section_title)
    IN  IF st.parts = <<>> THEN None ELSE SectionInfo(Join(st.parts), st.pages)

\* (?:\.\d+[A-Z]?)* read greedily at position j: the position after it
RECURSIVE ConcSubNumbersEnd(_, _)
ConcSubNumbersEnd(t, j) ==
    LET d == SkipDigits(t, j + 1)
        f == IF d <= Len(t) /\ t[d] \in UpperCase THEN d + 1 ELSE d
    IN  IF j <= Len(t) /\ t[j] = "." /\ d > j + 1
        THEN ConcSubNumbersEnd(t, f)
        ELSE j

\* a marker pattern whose type letter is R only
ConcMarkerRulesOnly(t, i, section_number) ==
    LET j == SkipSpace(t, i)
        a == j + Len(section_number)
        b == IF section_number = Seven
             THEN IF a <= Len(t) /\ t[a] = "." /\ SkipDigits(t, a + 1) > a + 1
                  THEN SkipDigits(t, a + 1)
                  ELSE Len(t) + 2
             ELSE a
        g == ConcSubNumbersEnd(t, b)
        w == SkipSpace(t, g)
    IN  [ok |-> /\ LineStart(t, i)
                /\ StartsWithAt(t, j, section_number)
                /\ b <= Len(t)
                /\ w > g
                /\ w + 1 <= Len(t)
                /\ t[w] = "R"
                /\ IsSpace(t[w + 1]),
         id_start |-> j, id_end |-> g - 1, letter |-> w,
         content_start |-> SkipSpace(t, w + 1)]

\* the clause marker ^\s*({section}(?:\.\d+[A-Z]?)*)\s+([RG])\s+ at position i
\* (for section 7: ^\s*(7\.\d+(?:\.\d+[A-Z]?)*)\s+([RG])\s+)
ConcMarker(t, i, section_number) ==
    LET j == SkipSpace(t, i)
        a == j + Len(section_number)
        b == IF section_number = Seven
             THEN IF a <= Len(t) /\ t[a] = "." /\ SkipDigits(t, a + 1) > a + 1
                  THEN SkipDigits(t, a + 1)
                  ELSE Len(t) + 2
             ELSE a
        g == ConcSubNumbersEnd(t, b)
        w == SkipSpace(t, g)
    IN  [ok |-> /\ LineStart(t, i)
                /\ StartsWithAt(t, j, section_number)
                /\ b <= Len(t)
                /\ w > g
                /\ w + 1 <= Len(t)
                /\ t[w] \in {"R", "G"}
                /\ IsSpace(t[w + 1]),
         id_start |-> j, id_end |-> g - 1, letter |-> w,
         content_start |-> SkipSpace(t, w + 1)]

\* "\n".join([line.strip() for line in content.split("\n")]).strip()
StripLines(content) ==
    LET lines == SplitLines(content)
    IN  Strip(Join([k \in 1..Len(lines) |-> Strip(lines[k])]))

\* the page loop of _extract_clauses_from_section: the break leaves only the
\* inner loop, so every page of section_pages is still tried
RECURSIVE ConcPageLoop(_, _, _, _, _)
ConcPageLoop(clause_id, section_pages, k, pages_content, page_number) ==
    IF k > Len(section_pages) THEN page_number
    ELSE ConcPageLoop(clause_id, section_pages, k + 1, pages_content,
             IF \E n \in 1..Len(pages_content) :
                   /\ pages_content[n].page_number = section_pages[k]
                   /\ Contains(pages_content[n].text, clause_id)
             THEN section_pages[k]
             ELSE page_number)

ConcPageNumber(clause_id, section_pages, pages_content) ==
    ConcPageLoop(clause_id, section_pages, 1, pages_content,
                 IF section_pages # <<>> THEN section_pages[1] ELSE -1)

RECURSIVE ConcClauseLoop(_, _, _, _, _)
ConcClauseLoop(t, from, section_number, section_pages, pages_content) ==
    LET i == FirstPos({j \in from..Len(t) : ConcMarker(t, j, section_number).ok})
        m == ConcMarker(t, i, section_number)
        ce == Min({e \in m.content_start..(Len(t) + 1) :
                     e = Len(t) + 1 \/ ConcMarker(t, e, section_number).ok})
        clause_id == Strip(SubSeq(t, m.id_start, m.id_end))
    IN  IF i = 0 THEN <<>>
        ELSE <<RegulationClause(section_number,
                   clause_id \o <<" ", t[m.letter]>>,
                   StripLines(Strip(SubSeq(t, m.content_start, ce - 1))),
                   ConcPageNumber(clause_id, section_pages, pages_content),
                   "UNKNOWN", i - 1)>>
             \o ConcClauseLoop(t, ce, section_number, section_pages, pages_content)

\* UKFCACoNCParser._extract_clauses_from_section
ConcExtractClauses(info, section_number, pages_content) ==
    ConcClauseLoop(info.text, 1, section_number, info.pages, pages_content)

-----------------------------------------------------------------------------
(* parsers/uk/uk_fca_fg21.py: UKFCAFg21Parser                              *)

Appendix == <<"A", "p", "p", "e", "n", "d", "i", "x">>

Chapter == <<"C", "h", "a", "p", "t", "e", "r">>

\* \w of the re module, over the characters the model uses
IsWordChar(c) == c \in UpperCase \/ c \in LowerCase \/ IsDigit(c) \/ c = "_"

\* ^{word}\s+{number} at position i: the position after the number, 0 when it
\* does not match; nocase tells whether re.IGNORECASE is set
WordNumberEnd(t, i, word, number, nocase) ==
    LET a == i + Len(word)
        w == SkipSpace(t, a)
    IN  IF /\ LineStart(t, i)
           /\ IF nocase THEN StartsWithAtNoCase(t, i, word) ELSE StartsWithAt(t, i, word)
           /\ w > a
           /\ StartsWithAtNoCase(t, w, number)
        THEN w + Len(number)
        ELSE 0

\* ^{word}\s+\d+ at position i
WordDigits(t, i, word, nocase) ==
    LET a == i + Len(word)
        w == SkipSpace(t, a)
    IN  /\ LineStart(t, i)
        /\ IF nocase THEN StartsWithAtNoCase(t, i, word) ELSE StartsWithAt(t, i, word)
        /\ w > a
        /\ w <= Len(t)
        /\ IsDigit(t[w])

\* section_number.startswith("Appendix")
IsAppendix(section_number) == StartsWithAt(section_number, 1, Appendix)

\* section_number.replace("Appendix", "") for an id that starts with it
AppendixNumber(section_number) == From(section_number, Len(Appendix) + 1)

\* start_pattern at position i: ^Appendix\s+{n} for an appendix, else
\* ^(Chapter\s+{section_number}|{section_number}\s+{section_title}); the position
\* after the match, 0 when it does not match
FgStartMatchEnd(t, i, section_number, section_title) ==
    IF IsAppendix(section_number)
    THEN WordNumberEnd(t, i, Appendix, AppendixNumber(section_number), TRUE)
    ELSE IF WordNumberEnd(t, i, Chapter, section_number, TRUE) > 0
    THEN WordNumberEnd(t, i, Chapter, section_number, TRUE)
    ELSE WordNumberEnd(t, i, section_number, section_title, TRUE)

\* end_pattern at position i: ^Appendix\s+\d+ for an appendix, else
\* ^(Chapter\s+{next_chapter}|{next_chapter}\s+|\bAppendix\b)
FgEndMatches(t, i, section_number) ==
    LET next_chapter == IF IsDigits(section_number)
                        THEN FormatInt(ParseInt(section_number) + 1)
                        ELSE Appendix
        a == i + Len(next_chapter)
        b == i + Len(Appendix)
    IN  IF IsAppendix(section_number)
        THEN WordDigits(t, i, Appendix, TRUE)
        ELSE /\ LineStart(t, i)
             /\ \/ WordNumberEnd(t, i, Chapter, next_chapter, TRUE) > 0
                \/ /\ StartsWithAtNoCase(t, i, next_chapter)
                   /\ a <= Len(t)
                   /\ IsSpace(t[a])
                \/ /\ StartsWithAtNoCase(t, i, Appendix)
                   /\ (b > Len(t) \/ ~IsWordChar(t[b]))

\* one iteration of the page loop of _find_section_text_and_pages
FgLocatePage(st, page, section_number, section_title) ==
    LET text == page.text
        s == FirstPos({i \in Positions(text) :
                 FgStartMatchEnd(text, i, section_number, section_title) > 0})
        e == FirstPos({i \in Positions(text) : FgEndMatches(text, i, section_number)})
    IN  IF text = <<>> THEN st
        ELSE IF ~st.in_section
        THEN IF s > 0
             THEN [st EXCEPT !.in_section = TRUE,
                      !.pages = Append(@, page.page_number),
                      !.parts = Append(@, Strip(From(text,
                          FgStartMatchEnd(text, s, section_number, section_title))))]
             ELSE st
        ELSE IF e > 0
        THEN [st EXCEPT !.parts = Append(@, Strip(SubSeq(text, 1, e - 1))),
                        !.broke = TRUE]
        ELSE [st EXCEPT !.pages = Append(@, page.page_number),
                        !.parts = Append(@, Strip(text))]

RECURSIVE FgLocateLoop(_, _, _, _, _)
FgLocateLoop(st, ps, k, section_number, section_title) ==
    IF k > Len(ps) \/ st.broke THEN st
    ELSE FgLocateLoop(FgLocatePage(st, ps[k], section_number, section_title),
                      ps, k + 1, section_number, section_title)

\* UKFCAFg21Parser._find_section_text_and_pages
FgFindSection(pages_content, section_number, section_title) ==
    LET st == FgLocateLoop(LocateStart, pages_content, 1, section_number, section_title)
    IN  IF st.parts = <<>> THEN None ELSE SectionInfo(Join(st.parts), st.pages)

\* the clause marker ^({section_number}\.(\d+))\s+ at position i: the position
\* after the digits, 0 when the marker does not match
FgMarkerEnd(t, i, section_number) ==
    LET a == i + Len(section_number)
        d == SkipDigits(t, a + 1)
    IN  IF /\ LineStart(t, i)
           /\ StartsWithAt(t, i, section_number)
           /\ a <= Len(t) /\ t[a] = "."
           /\ d > a + 1
           /\ d <= Len(t) /\ IsSpace(t[d])
        THEN d
        ELSE 0

\* the lookahead (?=^{section_number}\.\d+\s+|^Chapter\s+\d+|^Appendix|\Z) at e
FgLookahead(t, e, section_number) ==
    \/ e = Len(t) + 1
    \/ FgMarkerEnd(t, e, section_number) > 0
    \/ WordDigits(t, e, Chapter, FALSE)
    \/ LineStart(t, e) /\ StartsWithAt(t, e, Appendix)

\* _create_appendix_clause
FgAppendixClause(section_number, section_text, section_pages) ==
    WithSubsection(
        RegulationClause(section_number, section_number \o <<" ", "G">>,
            CleanClauseContent(section_text),
            IF section_pages # <<>> THEN section_pages[1] ELSE -1,
            "UNKNOWN", -1),
        "")

\* the finditer loop of _extract_clauses_from_section; current is
\* current_subsection_name
RECURSIVE FgClauseLoop(_, _, _, _, _, _)
FgClauseLoop(t, from, section_number, section_pages, pages_content, current) ==
    LET i == FirstPos({j \in from..Len(t) : FgMarkerEnd(t, j, section_number) > 0})
        d == FgMarkerEnd(t, i, section_number)
        cs == SkipSpace(t, d)
        ce == Min({e \in cs..(Len(t) + 1) : FgLookahead(t, e, section_number)})
        clause_id == Strip(SubSeq(t, i, d - 1))
        name == CurrentSubsectionName(
                    find_subsection_name(FgSubsectionMapping, FALSE, FgLinesBefore,
                                         t, i - 1),
                    current)
    IN  IF i = 0 THEN <<>>
        ELSE <<WithSubsection(
                   RegulationClause(section_number, clause_id \o <<" ", "G">>,
                       CleanClauseContent(Strip(SubSeq(t, cs, ce - 1))),
                       FindClausePageNumber(clause_id, section_pages, pages_content),
                       "UNKNOWN", i - 1),
                   name)>>
             \o FgClauseLoop(t, ce, section_number, section_pages, pages_content,
                             name)

\* a segmenter that looks for numbered paragraphs in an appendix too
FgExtractClausesNumbered(info, section_number, pages_content) ==
    FgClauseLoop(info.text, 1, section_number, info.pages, pages_content, "")

\* UKFCAFg21Parser._extract_clauses_from_section
FgExtractClauses(info, section_number, pages_content) ==
    IF IsAppendix(section_number)
    THEN <<FgAppendixClause(section_number, info.text, info.pages)>>
    ELSE FgClauseLoop(info.text, 1, section_number, info.pages, pages_content, "")

-----------------------------------------------------------------------------
(* The variants behind one dispatch                                        *)

Variants == {"CONC", "FG21", "EBA"}

\* parser._find_section_text_and_pages of the variant's class
FindSection(v, pages_content, section) ==
    CASE v = "CONC" -> ConcFindSection(pages_content, section.number, section.title)
      [] v = "FG21" -> FgFindSection(pages_content, section.number, section.title)
      [] v = "EBA" -> EbaFindSection(pages_content, section.number, section.title)

\* a segmenter whose pattern matches every marker twice
ExtractClausesTwice(v, info, section, pages_content) ==
    LET cs == CASE v = "CONC" -> ConcExtractClauses(info, section.number, pages_content)
                [] v = "FG21" -> FgExtractClauses(info, section.number, pages_content)
                [] v = "EBA" -> EbaExtractClauses(info, section.number, pages_content)
    IN  [j \in 1..(2 * Len(cs)) |-> cs[(j + 1) \div 2]]

\* parser._extract_clauses_from_section of the variant's class
ExtractClauses(v, info, section, pages_content) ==
    CASE v = "CONC" -> ConcExtractClauses(info, section.number, pages_content)
      [] v = "FG21" -> FgExtractClauses(info, section.number, pages_content)
      [] v = "EBA" -> EbaExtractClauses(info, section.number, pages_content)

-----------------------------------------------------------------------------
(* Inputs: configured sections and the lines texts are made of.  Titles are *)
(* configured values (ParserConfig.sections_to_extract); the model         *)
(* configures two-letter titles to keep texts short.                       *)

Conc52A == [number |-> <<"5", ".", "2", "A">>, title |-> <<"C", "a">>]

Conc7 == [number |-> Seven, title |-> <<"A", "r">>]

Fg2 == [number |-> <<"2">>, title |-> <<"U", "n">>]

FgAppendix1 == [number |-> Appendix \o <<"1">>, title |-> <<"G", "d">>]

Eba8 == [number |-> <<"8">>, title |-> <<"M", "f">>]

\* the most lines of a section text handed to a segmenter
MaxLines == 4

\* lines of a CONC section 5.2A text: two markers, a marker with nothing after
\* it, a marker of another section, running text and a blank line
Conc52ALines ==
    { <<"5", ".", "2", "A", ".", "1", " ", "R", " ", "a", "b", "c">>,
      <<"5", ".", "2", "A", ".", "2", " ", "G", " ", "a", "b", "d">>,
      <<"5", ".", "2", "A", ".", "1", " ", "R">>,
      <<"5", ".", "2", "B", ".", "1", " ", "R", " ", "a", "b", "e">>,
      <<"a", "b", "f">>,
      <<>> }

\* lines of a CONC section 7 text: "7 R" is no marker of section 7
Conc7Lines ==
    { <<"7", ".", "1", ".", "1", " ", "R", " ", "a", "b", "c">>,
      <<"7", ".", "2", " ", "G", " ", "a", "b", "d">>,
      <<"7", " ", "R", " ", "a", "b", "e">>,
      <<"7", ".", "1", "A", " ", "R", " ", "a", "b", "h">>,
      <<"8", ".", "1", " ", "R", " ", "a", "b", "g">>,
      <<"a", "b", "f">> }

\* lines of an EBA section 8 text: paragraphs of 3, 2, 1 and 4 digits, a bare
\* paragraph number, the Annex heading, the next section and running text
Eba8Lines ==
    { <<"2", "4", "0", ".", " ", "a", "b", "c">>,
      <<"2", "4", ".", " ", "a", "b", "d">>,
      <<"5", ".", " ", "a", "b", "e">>,
      <<"1", "2", "4", "0", ".", " ", "a", "b", "f">>,
      <<"2", "4", "1", ".">>,
      <<"A", "n", "n", "e", "x", " ", "a", "b", "g">>,
      <<"9", ".", " ", "a", "b", "h">>,
      <<"a", "b", "i">> }

\* lines of an FG21 chapter 2 text
Fg2Lines ==
    { <<"2", ".", "1", " ", "a", "b", "c">>,
      <<"2", ".", "1", "0", " ", "a", "b", "d">>,
      <<"2", ".", "2">>,
      <<"3", ".", "1", " ", "a", "b", "e">>,
      <<"C", "h", "a", "p", "t", "e", "r", " ", "3">>,
      <<"A", "p", "p", "e", "n", "d", "i", "x", " ", "1">>,
      <<"a", "b", "f">> }

SegSections(v) ==
    CASE v = "CONC" -> {Conc52A, Conc7}
      [] v = "FG21" -> {Fg2}
      [] v = "EBA" -> {Eba8}

SegLines(section) ==
    CASE section = Conc52A -> Conc52ALines
      [] section = Conc7 -> Conc7Lines
      [] section = Fg2 -> Fg2Lines
      [] section = Eba8 -> Eba8Lines

\* the texts of one to n lines drawn from a set of lines
Texts(lines, n) == {Join(ls) : ls \in UNION {[1..k -> lines] : k \in 1..n}}

\* the page a test hands to a segmenter together with the section text
SegPage(v) ==
    CASE v = "CONC" -> 41
      [] v = "FG21" -> 3
      [] v = "EBA" -> 60

-----------------------------------------------------------------------------
(* Direct calls of a segmenter on a section text, as the unit tests make   *)
(* them: _extract_clauses_from_section({"text": t, "pages": [60]}, section, *)
(* [{"page_number": 60, "text": t}])                                       *)

NoFile == [exists |-> FALSE, pdf |-> FALSE, opens |-> FALSE, front |-> 0,
           marker |-> [page |-> 0, text |-> <<>>], body |-> <<>>]

NoCall == [op |-> "none"]

InitSeg ==
    /\ variant \in Variants
    /\ \E section \in SegSections(variant) :
         /\ config = [start_page |-> 1, sections |-> <<section>>]
         /\ \E t \in Texts(SegLines(section), MaxLines) :
              pages = <<[page_number |-> SegPage(variant), text |-> t]>>
    /\ file = NoFile
    /\ total = 1
    /\ pc = "call"
    /\ sec = 1
    /\ section_info = None
    /\ clauses = <<>>
    /\ call = NoCall
    /\ result = [kind |-> "none"]
    /\ parsers = DefaultParsers
    /\ registered = DefaultRegistered
    /\ parse_history = <<>>
    /\ logged = 0

\* _extract_clauses_from_section called on the whole text of the page
SegmentText ==
    /\ pc = "call"
    /\ section_info' = SectionInfo(pages[1].text, <<pages[1].page_number>>)
    /\ clauses' = ExtractClauses(variant, section_info', config.sections[sec], pages)
    /\ pc' = "segmented"
    /\ result' = [kind |-> "clauses"]
    /\ UNCHANGED <<variant, file, config, pages, total, sec, call>>
    /\ UNCHANGED service_vars

NextSeg == SegmentText

SpecSeg == InitSeg /\ [][NextSeg]_vars

-----------------------------------------------------------------------------
(* Locating a section in a page sequence and segmenting the located span   *)
(* (the body of the section loop of _parse_document), and direct calls of  *)
(* a segmenter with a section_pages list of the caller's choice            *)

\* the most non-empty pages of a document
MaxPages == 3

\* per section: its header line, two clause markers and the heading that ends it
PipeParts(section) ==
    CASE section = Conc52A ->
           [header |-> <<"5", ".", "2", "A", " ", "C", "a">>,
            first |-> <<"5", ".", "2", "A", ".", "1", " ", "R", " ", "a", "b", "c">>,
            second |-> <<"5", ".", "2", "A", ".", "2", " ", "G", " ", "a", "b", "d">>,
            ending |-> <<"5", ".", "3", " ", "R", "e", "s", "p", "o", "n", "s",
                         "i", "b", "l", "e">>]
      [] section = Fg2 ->
           [header |-> <<"C", "h", "a", "p", "t", "e", "r", " ", "2">>,
            first |-> <<"2", ".", "1", " ", "a", "b", "c">>,
            second |-> <<"2", ".", "2", " ", "a", "b", "d">>,
            ending |-> <<"C", "h", "a", "p", "t", "e", "r", " ", "3">>]
      [] section = Eba8 ->
           [header |-> <<"8", ".", " ", "M", "f">>,
            first |-> <<"2", "4", "0", ".", " ", "a", "b", "c">>,
            second |-> <<"2", "4", "1", ".", " ", "a", "b", "d">>,
            ending |-> <<"9", ".", " ", "X", "y">>]

\* page texts: the header alone (as a table of contents shows it), the header with
\* the first clause, each clause alone, and a clause followed by the ending heading
PipePages(section) ==
    LET p == PipeParts(section)
    IN  { p.header,
          Join(<<p.header, p.first>>),
          p.first,
          p.second,
          Join(<<p.second, p.ending>>) }

PipeSections(v) ==
    CASE v = "CONC" -> {Conc52A}
      [] v = "FG21" -> {Fg2}
      [] v = "EBA" -> {Eba8}

\* page number of the first non-empty page; the following pages are consecutive
FirstPages(v) ==
    CASE v = "CONC" -> {41}
      [] v = "FG21" -> {3}
      [] v = "EBA" -> {EbaContentPage - 1, EbaContentPage}

PageNumbers(ps) == {ps[k].page_number : k \in 1..Len(ps)}

\* the increasing sequence of the numbers of a set
RECURSIVE SortedSeq(_)
SortedSeq(S) == IF S = {} THEN <<>> ELSE <<Min(S)>> \o SortedSeq(S \ {Min(S)})

InitPipe ==
    /\ variant \in Variants
    /\ \E section \in PipeSections(variant) :
         /\ config = [start_page |-> 1, sections |-> <<section>>]
         /\ \E first \in FirstPages(variant) :
              \E n \in 1..MaxPages :
                 \E texts \in [1..n -> PipePages(section)] :
                    pages = [k \in 1..n |->
                               [page_number |-> first + k - 1, text |-> texts[k]]]
    /\ file = NoFile
    /\ total = Len(pages)
    /\ pc = "call"
    /\ sec = 1
    /\ section_info = None
    /\ clauses = <<>>
    /\ call = NoCall
    /\ result = [kind |-> "none"]
    /\ parsers = DefaultParsers
    /\ registered = DefaultRegistered
    /\ parse_history = <<>>
    /\ logged = 0

\* section_info = self._find_section_text_and_pages(pages_content, number, title)
Locate ==
    /\ pc = "call"
    /\ section_info' = FindSection(variant, pages, config.sections[sec])
    /\ pc' = IF section_info'.found THEN "located" ELSE "absent"
    /\ call' = [op |-> "locate"]
    /\ result' = [kind |-> IF section_info'.found THEN "span" ELSE "None"]
    /\ UNCHANGED <<variant, file, config, pages, total, sec, clauses>>
    /\ UNCHANGED service_vars

\* clauses = self._extract_clauses_from_section(section_info, number, pages_content)
Segment ==
    /\ pc = "located"
    /\ clauses' = ExtractClauses(variant, section_info, config.sections[sec], pages)
    /\ pc' = "segmented"
    /\ result' = [kind |-> "clauses"]
    /\ UNCHANGED <<variant, file, config, pages, total, sec, section_info, call>>
    /\ UNCHANGED service_vars

\* _extract_clauses_from_section called with the text of all pages and a
\* section_pages list chosen by the caller (possibly empty)
SegmentWithPages ==
    /\ pc = "call"
    /\ \E S \in SUBSET PageNumbers(pages) :
         section_info' = SectionInfo(Join([k \in 1..Len(pages) |-> pages[k].text]),
                                     SortedSeq(S))
    /\ clauses' = ExtractClauses(variant, section_info', config.sections[sec], pages)
    /\ pc' = "segmented"
    /\ call' = [op |-> "direct"]
    /\ result' = [kind |-> "clauses"]
    /\ UNCHANGED <<variant, file, config, pages, total, sec>>
    /\ UNCHANGED service_vars

NextPipe == Locate \/ Segment \/ SegmentWithPages

SpecPipe == InitPipe /\ [][NextPipe]_vars

-----------------------------------------------------------------------------
(* Constructing a RegulationClause: the segmenters pass no clause_type     *)
(* (CONC, FG21) or a fixed one (EBA passes "R")                            *)

\* clause ids: a stem followed by an ending
IdStems ==
    { <<>>, <<"7", ".", "1", ".", "1">>, <<"2", "4", "0">>,
      <<"A", "p", "p", "e", "n", "d", "i", "x", "1">>, <<"R">>, <<"5", " ", "G">> }

IdEndings ==
    { <<>>, <<" ", "R">>, <<" ", "G">>, <<"R">>, <<"G">>, <<" ", "r">>,
      <<" ", "R", " ">>, <<" ", "G", "R">>, <<" ", "R", "G">>, <<" ">> }

\* what a caller passes as clause_type: nothing, or a fixed type
PassedTypes == {"absent", "R", "G"}

InitType ==
    /\ variant \in {"EBA"}
    /\ \E stem \in IdStems, ending \in IdEndings, given \in PassedTypes :
         call = [op |-> "RegulationClause", clause_id |-> stem \o ending,
                 clause_type |-> given]
    /\ file = NoFile
    /\ config = [start_page |-> 1, sections |-> <<Eba8>>]
    /\ pages = <<>>
    /\ total = 0
    /\ pc = "call"
    /\ sec = 1
    /\ section_info = None
    /\ clauses = <<>>
    /\ result = [kind |-> "none"]
    /\ parsers = DefaultParsers
    /\ registered = DefaultRegistered
    /\ parse_history = <<>>
    /\ logged = 0

\* RegulationClause(section=..., clause_id=..., content=..., page_number=...
\* [, clause_type=...]); the field defaults to UNKNOWN when it is not passed
Construct ==
    /\ pc = "call"
    /\ call.op = "RegulationClause"
    /\ clauses' = <<RegulationClause(config.sections[sec].number, call.clause_id,
                       <<"a", "b", "c">>, 1,
                       IF call.clause_type = "absent" THEN "UNKNOWN"
                       ELSE call.clause_type,
                       -1)>>
    /\ pc' = "constructed"
    /\ result' = [kind |-> "RegulationClause"]
    /\ UNCHANGED <<variant, file, config, pages, total, sec, section_info, call>>
    /\ UNCHANGED service_vars

NextType == Construct

SpecType == InitType /\ [][NextType]_vars

-----------------------------------------------------------------------------
(* Documents: a PDF of front pages (blank but for one page that may carry  *)
(* the words a validator looks for) followed by body pages                 *)

\* the number of pages of the PDF
PageCount(f) == f.front + Len(f.body)

\* page.extract_text() of page n
PageText(f, n) ==
    IF n > f.front THEN f.body[n - f.front]
    ELSE IF n = f.marker.page THEN f.marker.text
    ELSE <<>>

\* the fewest pages a document of the variant has (len(pdf.pages) < ...)
MinPages(v) ==
    CASE v = "CONC" -> 10
      [] v = "FG21" -> 10
      [] v = "EBA" -> 20

\* how many first pages a validator reads (range(min(..., len(pdf.pages))))
PagesRead(v) ==
    CASE v = "CONC" -> 5
      [] v = "FG21" -> 5
      [] v = "EBA" -> 10

\* text.lower()
Lower(t) == [k \in 1..Len(t) |-> LowerOf(t[k])]

\* the test a validator makes on the text of one of the first pages
HasIndicator(v, text) ==
    CASE v = "CONC" ->
           \/ Contains(text, <<"C", "O", "N", "C">>)
           \/ Contains(text, <<"C", "o", "n", "s", "u", "m", "e", "r", " ",
                               "C", "r", "e", "d", "i", "t">>)
      [] v = "FG21" ->
           \/ Contains(text, <<"F", "G", "2", "1", "/", "1">>)
           \/ Contains(Lower(text), <<"v", "u", "l", "n", "e", "r", "a", "b", "l", "e",
                                      " ", "c", "u", "s", "t", "o", "m", "e", "r", "s">>)
           \/ Contains(text, <<"F", "i", "n", "a", "l", "i", "s", "e", "d", " ",
                               "G", "u", "i", "d", "a", "n", "c", "e">>)
      [] v = "EBA" ->
           \/ Contains(text, <<"E", "B", "A", "/", "G", "L", "/", "2", "0", "2", "0",
                               "/", "0", "6">>)
           \/ Contains(Lower(text), <<"l", "o", "a", "n", " ", "o", "r", "i", "g", "i",
                                      "n", "a", "t", "i", "o", "n", " ", "a", "n", "d",
                                      " ", "m", "o", "n", "i", "t", "o", "r", "i", "n",
                                      "g">>)
           \/ Contains(text, <<"G", "u", "i", "d", "e", "l", "i", "n", "e", "s">>)
           \/ Contains(text, <<"E", "u", "r", "o", "p", "e", "a", "n", " ", "B", "a",
                               "n", "k", "i", "n", "g", " ", "A", "u", "t", "h", "o",
                               "r", "i", "t", "y">>)

\* a validator that looks for an indicator on every page of the document
ValidateDocumentAllPages(v, f) ==
    /\ f.exists
    /\ f.pdf
    /\ f.opens
    /\ PageCount(f) >= MinPages(v)
    /\ \E n \in 1..PageCount(f) :
         PageText(f, n) # <<>> /\ HasIndicator(v, PageText(f, n))

\* _validate_document: the file exists, is named .pdf, opens (an exception of
\* pdfplumber gives False), has enough pages, and one of its first pages has
\* text with an indicator
ValidateDocument(v, f) ==
    /\ f.exists
    /\ f.pdf
    /\ f.opens
    /\ PageCount(f) >= MinPages(v)
    /\ \E n \in 1..Min({PagesRead(v), PageCount(f)}) :
         PageText(f, n) # <<>> /\ HasIndicator(v, PageText(f, n))

\* ^Page \d+$ matched against a line
IsPageLine(line) ==
    /\ StartsWithAt(line, 1, <<"P", "a", "g", "e", " ">>)
    /\ IsDigits(From(line, 6))

\* a line _clean_page_text of the EBA parser drops
EbaNoiseLine(line) ==
    LET authority == Contains(line, <<"E", "u", "r", "o", "p", "e", "a", "n", " ", "B",
                                      "a", "n", "k", "i", "n", "g", " ", "A", "u", "t",
                                      "h", "o", "r", "i", "t", "y">>)
    IN  \/ StartsWithAt(line, 1, <<"E", "B", "A", "/", "G", "L", "/", "2", "0", "2", "0",
                                   "/", "0", "6">>)
        \/ authority /\ Len(line) < 50
        \/ Len(line) < 15 /\ (IsDigits(line) \/ IsPageLine(line))
        \/ Contains(line, <<"w", "w", "w", ".", "e", "b", "a", ".", "e", "u", "r", "o",
                            "p", "a", ".", "e", "u">>)
        \/ StartsWithAt(line, 1, <<"P", "u", "b", "l", "i", "c", "a", "t", "i", "o", "n">>)

\* a line _clean_page_text of the FG21 parser drops
FgNoiseLine(line) ==
    LET fca == <<"F", "i", "n", "a", "n", "c", "i", "a", "l", " ", "C", "o", "n", "d",
                 "u", "c", "t", " ", "A", "u", "t", "h", "o", "r", "i", "t", "y">>
    IN  \/ StartsWithAt(line, 1, <<"F", "G", "2", "1", "/", "1", " ">> \o fca)
        \/ Contains(line, fca) /\ Contains(line, Chapter)
        \/ /\ Len(line) < 15
           /\ \/ IsDigits(line)
              \/ IsPageLine(line)
              \/ line = <<"P", "u", "b", "r", "e", "f", ":", "0", "0", "7", "4", "0", "7">>
        \/ Contains(line, <<"w", "w", "w", ".", "h", "a", "n", "d", "b", "o", "o", "k",
                            ".", "f", "c", "a", ".", "o", "r", "g", ".", "u", "k">>)
        \/ StartsWithAt(line, 1, <<"R", "e", "l", "e", "a", "s", "e">>)
        \/ StartsWithAt(line, 1, <<"n", " ", "R", "e", "l", "e", "a", "s", "e">>)

\* _clean_page_text: lines are stripped; empty lines and noise lines are dropped.
\* The CONC parser keeps the text as it was extracted.
CleanPageText(v, text) ==
    LET lines == SplitLines(text)
        stripped == [k \in 1..Len(lines) |-> Strip(lines[k])]
        keep(line) == /\ line # <<>>
                      /\ v = "EBA" => ~EbaNoiseLine(line)
                      /\ v = "FG21" => ~FgNoiseLine(line)
    IN  IF v = "CONC" \/ text = <<>> THEN text
        ELSE Join(SelectSeq(stripped, keep))

\* the first page _extract_pdf_pages takes: pdf_start_page (CONC), 3 (FG21),
\* 1 (EBA)
StartPage(v, cfg) ==
    CASE v = "CONC" -> cfg.start_page
      [] v = "FG21" -> 3
      [] v = "EBA" -> 1

\* the numbers of the pages _extract_pdf_pages appends to pages_content
ExtractedPages(v, f, cfg) == {n \in 1..PageCount(f) : n >= StartPage(v, cfg)}

\* pages_content without its pages of empty text, which every locator skips
\* and on which no clause number is found
ExtractPdfPages(v, f, cfg) ==
    LET ns == SortedSeq({n \in ExtractedPages(v, f, cfg) :
                           CleanPageText(v, PageText(f, n)) # <<>>})
    IN  [k \in 1..Len(ns) |->
           [page_number |-> ns[k], text |-> CleanPageText(v, PageText(f, ns[k]))]]

-----------------------------------------------------------------------------
(* The sections a parse works through                                      *)

\* UKFCACoNCParser.SECTIONS_TO_EXTRACT
ConcSectionsToExtract ==
    <<[number |-> <<"5", ".", "2", "A">>,
       title |-> <<"C", "r", "e", "d", "i", "t", "w", "o", "r", "t", "h", "i",
                   "n", "e", "s", "s", " ", "a", "s", "s", "e", "s", "s", "m",
                   "e", "n", "t">>],
      [number |-> <<"2", ".", "1", "0">>,
       title |-> <<"M", "e", "n", "t", "a", "l", " ", "c", "a", "p", "a", "c",
                   "i", "t", "y", " ", "g", "u", "i", "d", "a", "n", "c", "e">>],
      [number |-> Seven,
       title |-> <<"A", "r", "r", "e", "a", "r", "s", ",", " ", "d", "e", "f",
                   "a", "u", "l", "t", " ", "a", "n", "d", " ", "r", "e", "c",
                   "o", "v", "e", "r", "y", " ", "(", "i", "n", "c", "l", "u",
                   "d", "i", "n", "g", " ", "r", "e", "p", "o", "s", "s", "e",
                   "s", "s", "i", "o", "n", "s", ")">>]>>

\* UKFCAFg21Parser.SECTIONS_TO_EXTRACT
FgSectionsToExtract ==
    <<[number |-> <<"1">>,
       title |-> <<"I", "n", "t", "r", "o", "d", "u", "c", "t", "i", "o", "n">>],
      [number |-> <<"2">>,
       title |-> <<"U", "n", "d", "e", "r", "s", "t", "a", "n", "d", "i", "n",
                   "g", " ", "t", "h", "e", " ", "n", "e", "e", "d", "s", " ",
                   "o", "f", " ", "v", "u", "l", "n", "e", "r", "a", "b", "l",
                   "e", " ", "c", "o", "n", "s", "u", "m", "e", "r", "s">>],
      [number |-> <<"3">>,
       title |-> <<"S", "k", "i", "l", "l", "s", " ", "a", "n", "d", " ", "c",
                   "a", "p", "a", "b", "i", "l", "i", "t", "y", " ", "o", "f",
                   " ", "s", "t", "a", "f", "f">>],
      [number |-> <<"4">>,
       title |-> <<"T", "a", "k", "i", "n", "g", " ", "p", "r", "a", "c", "t",
                   "i", "c", "a", "l", " ", "a", "c", "t", "i", "o", "n">>],
      [number |-> <<"5">>,
       title |-> <<"M", "o", "n", "i", "t", "o", "r", "i", "n", "g", " ", "a",
                   "n", "d", " ", "e", "v", "a", "l", "u", "a", "t", "i", "o",
                   "n">>],
      [number |-> Appendix \o <<"1">>,
       title |-> <<"G", "D", "P", "R", " ", "a", "n", "d", " ", "D", "P", "A",
                   " ", "2", "0", "1", "8", " ", "c", "o", "n", "s", "i", "d",
                   "e", "r", "a", "t", "i", "o", "n", "s">>],
      [number |-> Appendix \o <<"2">>,
       title |-> <<"O", "t", "h", "e", "r", " ", "o", "b", "l", "i", "g", "a",
                   "t", "i", "o", "n", "s", " ", "r", "e", "l", "e", "v", "a",
                   "n", "t", " ", "t", "o", " ", "v", "u", "l", "n", "e", "r",
                   "a", "b", "l", "e", " ", "c", "o", "n", "s", "u", "m", "e",
                   "r", "s">>]>>

\* EUEBAGl202006Parser.SECTIONS_TO_EXTRACT
EbaSectionsToExtract ==
    <<[number |-> <<"8">>,
       title |-> <<"M", "o", "n", "i", "t", "o", "r", "i", "n", "g", " ", "f",
                   "r", "a", "m", "e", "w", "o", "r", "k">>]>>

SECTIONS_TO_EXTRACT(v) ==
    CASE v = "CONC" -> ConcSectionsToExtract
      [] v = "FG21" -> FgSectionsToExtract
      [] v = "EBA" -> EbaSectionsToExtract

\* a sections_to_extract of the configuration: None, or a map, which is the
\* sequence of its items
NoSections == [none |-> TRUE, map |-> <<>>]

SectionMap(items) == [none |-> FALSE, map |-> items]

\* sections_to_extract = self.config.sections_to_extract or
\* self.SECTIONS_TO_EXTRACT: None and the empty map are both false
sections_to_extract(v, cfg) ==
    IF cfg.sections_to_extract.none \/ cfg.sections_to_extract.map = <<>>
    THEN SECTIONS_TO_EXTRACT(v)
    ELSE cfg.sections_to_extract.map

\* the keyword arguments _parse_document passes to DocumentMetadata(...)
MetadataArguments(v) ==
    {"source_file", "total_pages", "sections_extracted", "parser_version",
     "additional_info"} \cup (IF v = "FG21" THEN {"country"} ELSE {})

\* the keyword arguments _parse_document passes to ParsedDocument(...)
DocumentArguments(v) ==
    CASE v = "CONC" -> {"document_type", "clauses", "metadata"}
      [] v = "FG21" -> {"document_type", "version", "country", "clauses", "metadata"}
      [] v = "EBA" -> {"document_type", "version", "clauses", "metadata"}

\* DocumentMetadata: source_file, total_pages (ge=1) and country are required
DocumentMetadataValid(arguments, total_pages) ==
    /\ {"source_file", "total_pages", "country"} \subseteq arguments
    /\ total_pages >= 1

\* ParsedDocument: document_type, country and metadata are required
ParsedDocumentValid(arguments) ==
    {"document_type", "country", "metadata"} \subseteq arguments

DocumentType(v) ==
    CASE v = "CONC" -> "UK_FCA_CONC"
      [] v = "FG21" -> "UK_FCA_FG21"
      [] v = "EBA" -> "EU_EBA_GL_2020_06"

\* the end of _parse_document: the metadata and the document are constructed,
\* and a model that misses a required field raises pydantic's ValidationError
\* (a ValueError)
BuildDocument(v, cfg, total_pages, all_clauses) ==
    IF ~DocumentMetadataValid(MetadataArguments(v), total_pages)
    THEN [kind |-> "ValidationError", model |-> "DocumentMetadata"]
    ELSE IF ~ParsedDocumentValid(DocumentArguments(v))
    THEN [kind |-> "ValidationError", model |-> "ParsedDocument"]
    ELSE [kind |-> "ParsedDocument",
          document_type |-> DocumentType(v),
          country |-> "UK",
          clauses |-> all_clauses,
          metadata |-> [total_pages |-> total_pages,
                        sections_extracted |->
                            [k \in 1..Len(sections_to_extract(v, cfg)) |->
                                 sections_to_extract(v, cfg)[k].number],
                        country |-> "UK",
                        start_page |-> cfg.start_page]]

-----------------------------------------------------------------------------
(* parse(file) and validate_document(file) on documents                    *)

\* the most body pages of a document
MaxBody == 2

\* the text a front page may carry: words the validator of the variant accepts
IndicatorText(v) ==
    CASE v = "CONC" -> <<"C", "O", "N", "C">>
      [] v = "FG21" -> <<"F", "G", "2", "1", "/", "1">>
      [] v = "EBA" -> <<"G", "u", "i", "d", "e", "l", "i", "n", "e", "s">>

\* body pages: the page texts of the section, a page with a footer line, and
\* for FG21 the page on which an appendix starts
BodyPages(v, section) ==
    PipePages(section)
      \cup {Join(<<PipeParts(section).first, <<"P", "a", "g", "e", " ", "7">> >>)}
      \cup (IF v = "FG21"
            THEN {Join(<<Appendix \o <<" ", "1">>, <<"a", "b", "g">> >>)}
            ELSE {})

\* documents: readable PDFs around the page-count and first-pages limits of the
\* validator, and files that are missing, not named .pdf, or do not open
Documents(v, section) ==
    { [exists |-> TRUE, pdf |-> TRUE, opens |-> TRUE, front |-> fr,
       marker |-> [page |-> m, text |-> IndicatorText(v)], body |-> b] :
        fr \in {MinPages(v) - 1, MinPages(v)},
        m \in {0, PagesRead(v), PagesRead(v) + 1},
        b \in UNION {[1..n -> BodyPages(v, section)] : n \in 0..MaxBody} }
    \cup
    { [exists |-> e, pdf |-> p, opens |-> o, front |-> MinPages(v),
       marker |-> [page |-> 1, text |-> IndicatorText(v)], body |-> <<>>] :
        e \in BOOLEAN, p \in BOOLEAN, o \in BOOLEAN }

\* sections_to_extract of the configuration
SectionLists(v) ==
    {NoSections, SectionMap(<<>>)} \cup
    (CASE v = "CONC" -> {SectionMap(<<Conc52A>>), SectionMap(<<Conc52A, Conc7>>)}
       [] v = "FG21" -> {SectionMap(<<Fg2>>), SectionMap(<<Fg2, FgAppendix1>>)}
       [] v = "EBA" -> {SectionMap(<<Eba8>>)})

\* pdf_start_page: 40 by default; only the CONC parser reads it
StartPages40(v) == IF v = "CONC" THEN {1, 40} ELSE {40}

Init ==
    /\ variant \in Variants
    /\ \E sp \in StartPages40(variant), ss \in SectionLists(variant) :
         config = [start_page |-> sp, sections_to_extract |-> ss]
    /\ \E section \in PipeSections(variant) : file \in Documents(variant, section)
    /\ call \in {[op |-> "parse"], [op |-> "validate"]}
    /\ pages = <<>>
    /\ total = 0
    /\ pc = "call"
    /\ sec = 1
    /\ section_info = None
    /\ clauses = <<>>
    /\ result = [kind |-> "none"]
    /\ parsers = DefaultParsers
    /\ registered = DefaultRegistered
    /\ parse_history = <<>>
    /\ logged = 0

\* validate_document(file)
Validate ==
    /\ pc = "call"
    /\ call.op = "validate"
    /\ result' = [kind |-> "bool", value |-> ValidateDocument(variant, file)]
    /\ pc' = "returned"
    /\ UNCHANGED <<variant, file, config, pages, total, sec, section_info, clauses,
                   call>>
    /\ UNCHANGED service_vars

\* parse(file), _validate_document is false: raise ValueError("Invalid ...")
ParseInvalid ==
    /\ pc = "call"
    /\ call.op = "parse"
    /\ ~ValidateDocument(variant, file)
    /\ result' = [kind |-> "ValueError"]
    /\ pc' = "raised"
    /\ UNCHANGED <<variant, file, config, pages, total, sec, section_info, clauses,
                   call>>
    /\ UNCHANGED service_vars

\* parse(file), _validate_document is true: pages_content = _extract_pdf_pages
ParseExtract ==
    /\ pc = "call"
    /\ call.op = "parse"
    /\ ValidateDocument(variant, file)
    /\ pages' = ExtractPdfPages(variant, file, config)
    /\ total' = Cardinality(ExtractedPages(variant, file, config))
    /\ sec' = 1
    /\ pc' = "sections"
    /\ UNCHANGED <<variant, file, config, section_info, clauses, call, result>>
    /\ UNCHANGED service_vars

\* the section loop: section_info = _find_section_text_and_pages(...); a
\* section that is not found is passed over
LocateSection ==
    /\ pc = "sections"
    /\ sec <= Len(sections_to_extract(variant, config))
    /\ section_info' = FindSection(variant, pages,
                                sections_to_extract(variant, config)[sec])
    /\ IF section_info'.found
       THEN pc' = "found" /\ sec' = sec
       ELSE pc' = "sections" /\ sec' = sec + 1
    /\ UNCHANGED <<variant, file, config, pages, total, clauses, call, result>>
    /\ UNCHANGED service_vars

\* the section loop: all_clauses.extend(_extract_clauses_from_section(...))
SegmentSection ==
    /\ pc = "found"
    /\ clauses' = clauses \o ExtractClauses(variant, section_info,
                                            sections_to_extract(variant, config)[sec], pages)
    /\ sec' = sec + 1
    /\ pc' = "sections"
    /\ UNCHANGED <<variant, file, config, pages, total, section_info, call, result>>
    /\ UNCHANGED service_vars

\* after the loop: DocumentMetadata(...) and ParsedDocument(...) are built and
\* the document is returned, or a model raises
Assemble ==
    /\ pc = "sections"
    /\ sec > Len(sections_to_extract(variant, config))
    /\ result' = BuildDocument(variant, config, total, clauses)
    /\ pc' = IF result'.kind = "ParsedDocument" THEN "returned" ELSE "raised"
    /\ UNCHANGED <<variant, file, config, pages, total, sec, section_info, clauses,
                   call>>
    /\ UNCHANGED service_vars

Next ==
    \/ Validate
    \/ ParseInvalid
    \/ ParseExtract
    \/ LocateSection
    \/ SegmentSection
    \/ Assemble

Spec == Init /\ [][Next]_vars

-----------------------------------------------------------------------------
(* ParserFactory: create_parser, get_supported_types_for_jurisdiction,     *)
(* register_parser and get_parser_for_file                                 *)

\* the classes for which issubclass(parser_class, BaseRegulationParser) holds
ParserClasses ==
    {"UKFCACoNCParser", "UKFCAFg21Parser", "EUEBAGl202006Parser", "MockParser"}

\* the loop over cls._parsers.keys() that looks for the key equal to the
\* lowered jurisdiction: the index of the entry, 0 when there is none
JurisdictionKey(ps, jurisdiction) ==
    FirstPos({k \in 1..Len(ps) : ps[k].key = Lower(jurisdiction)})

\* list(cls._parsers[key].keys())
TypeNames(types) == [k \in 1..Len(types) |-> types[k].document_type]

\* ParserFactory.get_supported_jurisdictions
get_supported_jurisdictions(ps) == [k \in 1..Len(ps) |-> ps[k].key]

\* ParserFactory.get_supported_types_for_jurisdiction
get_supported_types_for_jurisdiction(ps, jurisdiction) ==
    LET k == JurisdictionKey(ps, jurisdiction)
    IN  IF k = 0 THEN <<>> ELSE TypeNames(ps[k].types)

\* jurisdiction_parsers[document_type]: the index of the type, 0 when it is not
\* a key
TypeIndex(types, document_type) ==
    FirstPos({k \in 1..Len(types) : types[k].document_type = document_type})

\* a create_parser that compares the jurisdiction as it was passed
create_parser_exact(ps, jurisdiction, document_type) ==
    LET j == FirstPos({k \in 1..Len(ps) : ps[k].key = jurisdiction})
        t == IF j = 0 THEN 0 ELSE TypeIndex(ps[j].types, document_type)
    IN  IF j = 0
        THEN [kind |-> "ValueError", lists |-> "jurisdictions",
              available |-> get_supported_jurisdictions(ps)]
        ELSE IF t = 0
        THEN [kind |-> "ValueError", lists |-> "types",
              available |-> TypeNames(ps[j].types)]
        ELSE [kind |-> "parser", parser_class |-> ps[j].types[t].parser_class]

\* ParserFactory.create_parser: the parser, or the ValueError with the list its
\* message carries
create_parser(ps, jurisdiction, document_type) ==
    LET j == JurisdictionKey(ps, jurisdiction)
        t == IF j = 0 THEN 0 ELSE TypeIndex(ps[j].types, document_type)
    IN  IF j = 0
        THEN [kind |-> "ValueError", lists |-> "jurisdictions",
              available |-> get_supported_jurisdictions(ps)]
        ELSE IF t = 0
        THEN [kind |-> "ValueError", lists |-> "types",
              available |-> TypeNames(ps[j].types)]
        ELSE [kind |-> "parser", parser_class |-> ps[j].types[t].parser_class]

\* jurisdiction_parsers[document_type] = parser_class: a key that exists keeps
\* its place, a new key goes to the end
SetType(types, document_type, parser_class) ==
    LET t == TypeIndex(types, document_type)
        entry == [document_type |-> document_type, parser_class |-> parser_class]
    IN  IF t = 0 THEN Append(types, entry) ELSE [types EXCEPT ![t] = entry]

\* a register_parser that replaces the dict of the jurisdiction
register_parser_replacing(ps, jurisdiction, document_type, parser_class) ==
    LET j == JurisdictionKey(ps, jurisdiction)
        only == <<[document_type |-> document_type, parser_class |-> parser_class]>>
    IN  IF parser_class \notin ParserClasses
        THEN [parsers |-> ps, result |-> [kind |-> "ValueError", lists |-> "none"]]
        ELSE [parsers |-> IF j = 0
                          THEN Append(ps, [key |-> Lower(jurisdiction), types |-> only])
                          ELSE [ps EXCEPT ![j].types = only],
              result |-> [kind |-> "None"]]

\* ParserFactory.register_parser: the registry after the call and its outcome
register_parser(ps, jurisdiction, document_type, parser_class) ==
    LET j == JurisdictionKey(ps, jurisdiction)
    IN  IF parser_class \notin ParserClasses
        THEN [parsers |-> ps, result |-> [kind |-> "ValueError", lists |-> "none"]]
        ELSE [parsers |->
                IF j = 0
                THEN Append(ps, [key |-> Lower(jurisdiction),
                                 types |-> SetType(<<>>, document_type, parser_class)])
                ELSE [ps EXCEPT ![j].types = SetType(@, document_type, parser_class)],
              result |-> [kind |-> "None"]]

\* the registered parsers of the entries from k on, in the order the two loops
\* over cls._parsers and its dicts visit them
RECURSIVE RegisteredParsers(_, _)
RegisteredParsers(ps, k) ==
    IF k > Len(ps) THEN <<>>
    ELSE [i \in 1..Len(ps[k].types) |->
            [jurisdiction |-> ps[k].key,
             document_type |-> ps[k].types[i].document_type,
             parser_class |-> ps[k].types[i].parser_class]]
         \o RegisteredParsers(ps, k + 1)

\* the first parser of a sequence whose validate_document(file_path) is true
\* (accepts: the classes whose validator accepts the file), or the ValueError
\* with the list of all registered parsers
FirstAccepting(tried, accepts, all) ==
    LET hits == {k \in 1..Len(tried) : tried[k].parser_class \in accepts}
    IN  IF hits = {}
        THEN [kind |-> "ValueError", lists |-> "parsers",
              available |-> [k \in 1..Len(all) |->
                               [jurisdiction |-> all[k].jurisdiction,
                                document_type |-> all[k].document_type]]]
        ELSE [kind |-> "parser",
              parser_class |-> tried[Min(hits)].parser_class,
              jurisdiction |-> tried[Min(hits)].jurisdiction,
              document_type |-> tried[Min(hits)].document_type]

\* a get_parser_for_file that searches every jurisdiction whatever the hint
get_parser_for_file_unhinted(ps, accepts, jurisdiction) ==
    FirstAccepting(RegisteredParsers(ps, 1), accepts, RegisteredParsers(ps, 1))

\* ParserFactory.get_parser_for_file; no jurisdiction (None or "") is <<>>
get_parser_for_file(ps, accepts, jurisdiction) ==
    LET all == RegisteredParsers(ps, 1)
        j == JurisdictionKey(ps, jurisdiction)
        tried == IF jurisdiction = <<>> THEN all
                 ELSE IF j = 0 THEN <<>>
                 ELSE RegisteredParsers(<<ps[j]>>, 1)
    IN  FirstAccepting(tried, accepts, all)

-----------------------------------------------------------------------------
(* Calls of the factory, in any order                                      *)

\* how many (jurisdiction, document_type) pairs are registered at run time
MaxRegistered == 2

Us == <<"u", "s">>

\* jurisdictions a caller passes: registered ones in either case, one that is
\* registered at run time and one that never is
CallJurisdictions == {Uk, <<"U", "K">>, Eu, Us, <<"x", "x">>}

\* document types a caller passes
CallTypes == {"FCA_CONC", "fca_conc", "MOCK_DOC"}

\* classes a caller registers: two parsers and a class that is no parser
CallClasses == {"MockParser", "UKFCAFg21Parser", "InvalidParser"}

InitFactory ==
    /\ variant = "CONC"
    /\ file = NoFile
    /\ config = [start_page |-> 40, sections |-> <<Conc52A>>]
    /\ pages = <<>>
    /\ total = 0
    /\ pc = "call"
    /\ sec = 1
    /\ section_info = None
    /\ clauses = <<>>
    /\ call = NoCall
    /\ result = [kind |-> "none"]
    /\ parsers = DefaultParsers
    /\ registered = DefaultRegistered
    /\ parse_history = <<>>
    /\ logged = 0

\* ParserFactory.register_parser(jurisdiction, document_type, parser_class)
RegisterParser ==
    \E j \in {Uk, <<"U", "K">>, Us}, t \in {"FCA_CONC", "MOCK_DOC"}, c \in CallClasses :
        LET r == register_parser(parsers, j, t, c)
            pair == [jurisdiction |-> Lower(j), document_type |-> t]
            known == \E k \in 1..Len(registered) : registered[k] = pair
        IN  /\ known \/ Len(registered) < Len(DefaultRegistered) + MaxRegistered
            /\ call' = [op |-> "register_parser", jurisdiction |-> j,
                        document_type |-> t, parser_class |-> c]
            /\ parsers' = r.parsers
            /\ registered' = IF r.result.kind = "None" /\ ~known
                             THEN Append(registered, pair) ELSE registered
            /\ result' = r.result
            /\ pc' = IF r.result.kind = "None" THEN "returned" ELSE "raised"
            /\ UNCHANGED <<parser_vars, parse_history, logged>>

\* ParserFactory.create_parser(jurisdiction, document_type)
CreateParser ==
    \E j \in CallJurisdictions, t \in CallTypes :
        /\ call' = [op |-> "create_parser", jurisdiction |-> j, document_type |-> t]
        /\ result' = create_parser(parsers, j, t)
        /\ pc' = IF result'.kind = "parser" THEN "returned" ELSE "raised"
        /\ UNCHANGED <<parser_vars, service_vars>>

\* ParserFactory.get_supported_types_for_jurisdiction(jurisdiction)
GetSupportedTypes ==
    \E j \in CallJurisdictions :
        /\ call' = [op |-> "get_supported_types_for_jurisdiction", jurisdiction |-> j]
        /\ result' = [kind |-> "list",
                      value |-> get_supported_types_for_jurisdiction(parsers, j)]
        /\ pc' = "returned"
        /\ UNCHANGED <<parser_vars, service_vars>>

\* ParserFactory.get_parser_for_file(file_path, jurisdiction): the validators
\* of the classes in accepts return True for the file
GetParserForFile ==
    \E accepts \in SUBSET ParserClasses, j \in {<<>>, Uk, <<"U", "K">>, Eu, <<"x", "x">>} :
        /\ call' = [op |-> "get_parser_for_file", accepts |-> accepts, jurisdiction |-> j]
        /\ result' = get_parser_for_file(parsers, accepts, j)
        /\ pc' = IF result'.kind = "parser" THEN "returned" ELSE "raised"
        /\ UNCHANGED <<parser_vars, service_vars>>

NextFactory == RegisterParser \/ CreateParser \/ GetSupportedTypes \/ GetParserForFile

SpecFactory == InitFactory /\ [][NextFactory]_vars

-----------------------------------------------------------------------------
(* services/parser_service.py: RegulationParserService.  What the file     *)
(* system and parser.parse() do for a created parser is an input of a      *)
(* call: "parsed" (a document is returned), "missing" (file_path.exists()  *)
(* is false) or "error" (parse raises ValueError).                         *)

\* how many operations the history keeps
HistoryLimit == 1000

\* a history that keeps its oldest entries when it is full
LogParseOperationKeepingOldest(history, operation_info) ==
    LET h == Append(history, operation_info)
    IN  IF Len(h) > HistoryLimit THEN SubSeq(h, 1, HistoryLimit) ELSE h

\* RegulationParserService._log_parse_operation: the history after the call
LogParseOperation(history, operation_info) ==
    LET h == Append(history, operation_info)
    IN  IF Len(h) > HistoryLimit
        THEN SubSeq(h, Len(h) - HistoryLimit + 1, Len(h))
        ELSE h

\* history[start:] of Python for a start that may be negative or past the end
SliceFrom(history, start) ==
    LET n == Len(history)
        from == IF start < 0
                THEN (IF start + n < 0 THEN 0 ELSE start + n)
                ELSE (IF start > n THEN n ELSE start)
    IN  SubSeq(history, from + 1, n)

\* a limit of get_parse_history: None, or an integer
NoLimit == [none |-> TRUE, n |-> 0]

Limit(n) == [none |-> FALSE, n |-> n]

\* RegulationParserService.get_parse_history: the list it returns; shares
\* tells whether the list is the history object of the service itself
get_parse_history(history, limit) ==
    [kind |-> "list",
     records |-> IF ~limit.none /\ limit.n # 0
                 THEN SliceFrom(history, -limit.n)
                 ELSE history,
     shares |-> FALSE]

\* the exception the try block of _parse_single_document raises, "none" when it
\* returns the document
SingleError(ps, jurisdiction, document_type, outcome) ==
    IF create_parser(ps, jurisdiction, document_type).kind # "parser" THEN "ValueError"
    ELSE IF outcome = "missing" THEN "FileNotFoundError"
    ELSE IF outcome = "error" THEN "ValueError"
    ELSE "none"

\* a _parse_single_document that does not log an operation that failed
ParseSingleDocumentSilent(ps, history, jurisdiction, document_type, outcome) ==
    LET error == SingleError(ps, jurisdiction, document_type, outcome)
        created == create_parser(ps, jurisdiction, document_type)
    IN  IF error = "none"
        THEN [history |-> LogParseOperation(history,
                  [file_path |-> created.parser_class, jurisdiction |-> jurisdiction,
                   document_type |-> document_type, success |-> TRUE, error |-> "none"]),
              result |-> [kind |-> "ParsedDocument", parser_class |-> created.parser_class]]
        ELSE [history |-> history,
              result |-> [kind |-> "RuntimeError", document_type |-> document_type,
                          error |-> error]]

\* RegulationParserService._parse_single_document: the history after the call
\* and the document it returns or the RuntimeError it raises
ParseSingleDocument(ps, history, jurisdiction, document_type, outcome) ==
    LET error == SingleError(ps, jurisdiction, document_type, outcome)
        created == create_parser(ps, jurisdiction, document_type)
        file_path == IF created.kind = "parser" THEN created.parser_class ELSE "unknown"
        info == [file_path |-> file_path, jurisdiction |-> jurisdiction,
                 document_type |-> document_type, success |-> error = "none",
                 error |-> error]
    IN  [history |-> LogParseOperation(history, info),
         result |-> IF error = "none"
                    THEN [kind |-> "ParsedDocument", parser_class |-> created.parser_class]
                    ELSE [kind |-> "RuntimeError", document_type |-> document_type,
                          error |-> error]]

\* the loop of _parse_all_documents_for_jurisdiction over available_types, from
\* the k-th type on: every type is parsed, a failure is caught and noted
RECURSIVE ParseAllLoop(_, _, _, _, _, _)
ParseAllLoop(ps, st, jurisdiction, available, k, outcomes) ==
    IF k > Len(available) THEN st
    ELSE LET document_type == available[k]
             r == ParseSingleDocument(ps, st.history, jurisdiction, document_type,
                                      outcomes[document_type])
         IN  ParseAllLoop(ps,
                 IF r.result.kind = "ParsedDocument"
                 THEN [history |-> r.history,
                       parsed |-> Append(st.parsed, document_type),
                       failed |-> st.failed]
                 ELSE [history |-> r.history,
                       parsed |-> st.parsed,
                       failed |-> Append(st.failed, [document_type |-> document_type,
                                                     error |-> r.result.error])],
                 jurisdiction, available, k + 1, outcomes)

\* a batch that fails as soon as one type failed
ParseAllDocumentsStrict(ps, history, jurisdiction, outcomes) ==
    LET available == get_supported_types_for_jurisdiction(ps, jurisdiction)
        st == ParseAllLoop(ps, [history |-> history, parsed |-> <<>>, failed |-> <<>>],
                           jurisdiction, available, 1, outcomes)
        summary == [file_path |-> "multiple", jurisdiction |-> jurisdiction,
                    document_type |-> "ALL", success |-> st.parsed # <<>>,
                    error |-> "none"]
    IN  IF available = <<>>
        THEN [history |-> history, result |-> [kind |-> "ValueError"]]
        ELSE [history |-> LogParseOperation(st.history, summary),
              result |-> IF st.failed # <<>>
                         THEN [kind |-> "RuntimeError", errors |-> st.failed]
                         ELSE [kind |-> "dict", documents |-> st.parsed]]

\* RegulationParserService._parse_all_documents_for_jurisdiction: the history
\* after the call and the dict it returns (by its keys) or the error it raises
ParseAllDocuments(ps, history, jurisdiction, outcomes) ==
    LET available == get_supported_types_for_jurisdiction(ps, jurisdiction)
        st == ParseAllLoop(ps, [history |-> history, parsed |-> <<>>, failed |-> <<>>],
                           jurisdiction, available, 1, outcomes)
        summary == [file_path |-> "multiple", jurisdiction |-> jurisdiction,
                    document_type |-> "ALL", success |-> st.parsed # <<>>,
                    error |-> "none"]
    IN  IF available = <<>>
        THEN [history |-> history, result |-> [kind |-> "ValueError"]]
        ELSE [history |-> LogParseOperation(st.history, summary),
              result |-> IF st.parsed = <<>>
                         THEN [kind |-> "RuntimeError", errors |-> st.failed]
                         ELSE [kind |-> "dict", documents |-> st.parsed]]

-----------------------------------------------------------------------------
(* Calls of one service                                                    *)

\* how many records the history of the modelled service may hold before a call
MaxHistory == 2

Outcomes == {"parsed", "missing", "error"}

InitService == InitFactory

\* service.parse_document(jurisdiction, document_type)
ParseDocument ==
    \E j \in {Uk, <<"U", "K">>, Eu, <<"x", "x">>},
       t \in {"FCA_CONC", "EBA_GL_2020_06", "INVALID"}, o \in Outcomes :
        LET r == ParseSingleDocument(parsers, parse_history, j, t, o)
        IN  /\ Len(parse_history) < MaxHistory
            /\ call' = [op |-> "parse_document", jurisdiction |-> j,
                        document_type |-> t, outcome |-> o]
            /\ parse_history' = r.history
            /\ logged' = logged + 1
            /\ result' = r.result
            /\ pc' = IF r.result.kind = "ParsedDocument" THEN "returned" ELSE "raised"
            /\ UNCHANGED <<parser_vars, parsers, registered>>

\* service.parse_document(jurisdiction): document_type is None
ParseAllForJurisdiction ==
    \E j \in {Uk, <<"U", "K">>, Eu, <<"x", "x">>} :
        LET available == get_supported_types_for_jurisdiction(parsers, j)
        IN  \E outcomes \in [{available[k] : k \in 1..Len(available)} -> Outcomes] :
               LET r == ParseAllDocuments(parsers, parse_history, j, outcomes)
               IN  /\ Len(parse_history) < MaxHistory
                   /\ call' = [op |-> "parse_all", jurisdiction |-> j,
                               outcomes |-> outcomes]
                   /\ parse_history' = r.history
                   /\ logged' = logged + (Len(r.history) - Len(parse_history))
                   /\ result' = r.result
                   /\ pc' = IF r.result.kind = "dict" THEN "returned" ELSE "raised"
                   /\ UNCHANGED <<parser_vars, parsers, registered>>

\* the limits a caller passes to get_parse_history
Limits == {NoLimit} \cup {Limit(n) : n \in -1..3}

\* service.get_parse_history(limit)
GetParseHistory ==
    \E limit \in Limits :
        /\ call' = [op |-> "get_parse_history", limit |-> limit]
        /\ result' = get_parse_history(parse_history, limit)
        /\ pc' = "returned"
        /\ UNCHANGED <<parser_vars, service_vars>>

\* the caller empties the list the last get_parse_history returned:
\* returned.clear()
ClearReturnedList ==
    /\ call.op = "get_parse_history"
    /\ result.records # <<>>
    /\ call' = [op |-> "returned.clear"]
    /\ result' = [result EXCEPT !.records = <<>>]
    /\ parse_history' = IF result.shares THEN <<>> ELSE parse_history
    /\ pc' = "returned"
    /\ UNCHANGED <<parser_vars, parsers, registered, logged>>

NextService ==
    \/ ParseDocument
    \/ ParseAllForJurisdiction
    \/ GetParseHistory
    \/ ClearReturnedList

SpecService == InitService /\ [][NextService]_vars

-----------------------------------------------------------------------------
(* The history of one service under a long run of logged operations       *)

\* how many operations are logged without clearing the history
MaxLogged == 1050

\* service._log_parse_operation({"operation_id": i, "success": True})
LogOperation ==
    /\ logged < MaxLogged
    /\ call' = [op |-> "_log_parse_operation", operation_id |-> logged]
    /\ parse_history' = LogParseOperation(parse_history,
                            [operation_id |-> logged, success |-> TRUE])
    /\ logged' = logged + 1
    /\ result' = [kind |-> "None"]
    /\ pc' = "returned"
    /\ UNCHANGED <<parser_vars, parsers, registered>>

\* service.clear_parse_history()
ClearParseHistory ==
    /\ parse_history # <<>>
    /\ call' = [op |-> "clear_parse_history"]
    /\ parse_history' = <<>>
    /\ logged' = 0
    /\ result' = [kind |-> "None"]
    /\ pc' = "returned"
    /\ UNCHANGED <<parser_vars, parsers, registered>>

NextHistory == LogOperation \/ ClearParseHistory

SpecHistory == InitService /\ [][NextHistory]_vars

-----------------------------------------------------------------------------
(* Direct calls of the FG21 and the EBA segmenter on section texts that    *)
(* hold subsection headings                                                *)

\* the most parts of a section text with headings
MaxParts == 4

\* parts of an FG21 chapter 2 text: a heading that two keys match with the
\* longer key declared later, one with the longer key declared first, a
\* heading that one key matches with a clause below it, two clauses, and a
\* clause below lines that fill the lines the lookup reads
FgSubParts ==
    { <<"n", "e", "e", "d", "s", " ", "o", "f", " ", "v", "u", "l",
        "n", "e", "r", "a", "b", "l", "e", " ", "c", "o", "n", "s",
        "u", "m", "e", "r", "s">>,
      <<"d", "e", "a", "l", "i", "n", "g", " ", "w", "i", "t", "h",
        " ", "v", "u", "l", "n", "e", "r", "a", "b", "l", "e", " ",
        "c", "o", "n", "s", "u", "m", "e", "r", "s">>,
      <<"C", "o", "m", "m", "u", "n", "i", "c", "a", "t", "i", "o",
        "n", "s", NL, "2", ".", "2", " ", "a", "b", "d">>,
      <<"2", ".", "1", " ", "a", "b", "c">>,
      <<"2", ".", "2", " ", "a", "b", "d">>,
      <<"a", "b", "f", NL, "a", "b", "f", NL, "a", "b", "f", NL, "a",
        "b", "f", NL, "2", ".", "3", " ", "a", "b", "e">> }

\* parts of an EBA section 8 text: two headings that two keys match (one with
\* a clause below it), two clauses, and a clause below lines that fill the
\* lines the lookup reads
EbaSubParts ==
    { <<"c", "r", "e", "d", "i", "t", " ", "r", "i", "s", "k", " ",
        "m", "o", "n", "i", "t", "o", "r", "i", "n", "g", " ", "f",
        "r", "a", "m", "e", "w", "o", "r", "k">>,
      <<"M", "o", "n", "i", "t", "o", "r", "i", "n", "g", " ", "o",
        "f", " ", "c", "o", "v", "e", "n", "a", "n", "t", "s", NL,
        "2", "4", "1", ".", " ", "a", "b", "d">>,
      <<"2", "4", "0", ".", " ", "a", "b", "c">>,
      <<"2", "4", "1", ".", " ", "a", "b", "d">>,
      <<"a", "b", "f", NL, "a", "b", "f", NL, "a", "b", "f", NL, "a",
        "b", "f", NL, "a", "b", "f", NL, "a", "b", "f", NL, "a", "b",
        "f", NL, "a", "b", "f", NL, "a", "b", "f", NL, "2", "4", "2",
        ".", " ", "a", "b", "e">> }

SubParts(v) == IF v = "FG21" THEN FgSubParts ELSE EbaSubParts

InitSub ==
    /\ variant \in {"FG21", "EBA"}
    /\ config = [start_page |-> 1,
                 sections |-> <<IF variant = "FG21" THEN Fg2 ELSE Eba8>>]
    /\ \E t \in Texts(SubParts(variant), MaxParts) :
         pages = <<[page_number |-> SegPage(variant), text |-> t]>>
    /\ file = NoFile
    /\ total = 1
    /\ pc = "call"
    /\ sec = 1
    /\ section_info = None
    /\ clauses = <<>>
    /\ call = NoCall
    /\ result = [kind |-> "none"]
    /\ parsers = DefaultParsers
    /\ registered = DefaultRegistered
    /\ parse_history = <<>>
    /\ logged = 0

NextSub == SegmentText

SpecSub == InitSub /\ [][NextSub]_vars

-----------------------------------------------------------------------------
(* Direct calls of a segmenter on section texts that hold short lines,     *)
(* lines of digits and lines of punctuation                                *)

\* lines of a section text: a clause marker with text, running text, a line of
\* two characters, a line of digits, a line of dots and a line of asterisks
CleanLines(v) ==
    { CASE v = "CONC" -> <<"5", ".", "2", "A", ".", "1", " ", "R", " ", "a", "b", "c">>
        [] v = "FG21" -> <<"2", ".", "1", " ", "a", "b", "c">>
        [] v = "EBA" -> <<"2", "4", "0", ".", " ", "a", "b", "c">>,
      <<"a", "b", "f">>,
      <<"a", "b">>,
      <<"1", "2", "3">>,
      <<".", ".", ".", ".">>,
      <<"*", "*", "*">> }

InitClean ==
    /\ variant \in Variants
    /\ config = [start_page |-> 1,
                 sections |-> <<CASE variant = "CONC" -> Conc52A
                                  [] variant = "FG21" -> Fg2
                                  [] variant = "EBA" -> Eba8>>]
    /\ \E t \in Texts(CleanLines(variant), MaxLines) :
         pages = <<[page_number |-> SegPage(variant), text |-> t]>>
    /\ file = NoFile
    /\ total = 1
    /\ pc = "call"
    /\ sec = 1
    /\ section_info = None
    /\ clauses = <<>>
    /\ call = NoCall
    /\ result = [kind |-> "none"]
    /\ parsers = DefaultParsers
    /\ registered = DefaultRegistered
    /\ parse_history = <<>>
    /\ logged = 0

NextClean == SegmentText

SpecClean == InitClean /\ [][NextClean]_vars

-----------------------------------------------------------------------------
(* Locating a section in page sequences that hold empty pages, headings    *)
(* below the start of the section, headings that do not end the section    *)
(* and, for CONC, headings of another top-level section                    *)

\* the most pages handed to a locator
MaxLocatePages == 3

\* per section: its header line, two lines of its body (the first one
\* numbered, also in the appendix), the heading that ends
\* it, a heading that does not end it (inner; none for CONC 5.2A, which every
\* heading ends) and a CONC heading of another top-level section (foreign)
LocateParts(section) ==
    CASE section = Conc52A ->
           [header |-> <<"5", ".", "2", "A", " ", "C", "a">>,
            first |-> <<"5", ".", "2", "A", ".", "1", " ", "R", " ", "a", "b", "c">>,
            second |-> <<"5", ".", "2", "A", ".", "2", " ", "G", " ", "a", "b", "d">>,
            ending |-> <<"5", ".", "3", " ", "R", "e", "s", "p", "o", "n", "s", "i", "b", "l", "e">>,
            inner |-> <<>>,
            foreign |-> <<"6", ".", "1", " ", "R", "e", "s", "p", "o", "n", "s", "i", "b", "l", "e">>]
      [] section = Conc7 ->
           [header |-> <<"7", ".", "1", " ", "A", "p", "p", "l", "i", "c", "a", "t", "i", "o", "n">>,
            first |-> <<"7", ".", "1", ".", "1", " ", "R", " ", "a", "b", "c">>,
            second |-> <<"7", ".", "2", ".", "1", " ", "G", " ", "a", "b", "d">>,
            ending |-> <<"8", ".", "1", " ", "A", "p", "p", "l", "i", "c", "a", "t", "i", "o", "n">>,
            inner |-> <<"7", ".", "3", " ", "R", "e", "s", "p", "o", "n", "s", "i", "b", "l", "e">>,
            foreign |-> <<"6", ".", "1", " ", "R", "e", "s", "p", "o", "n", "s", "i", "b", "l", "e">>]
      [] section = Fg2 ->
           [header |-> <<"C", "h", "a", "p", "t", "e", "r", " ", "2">>,
            first |-> <<"2", ".", "1", " ", "a", "b", "c">>,
            second |-> <<"2", ".", "2", " ", "a", "b", "d">>,
            ending |-> <<"C", "h", "a", "p", "t", "e", "r", " ", "3">>,
            inner |-> <<"C", "h", "a", "p", "t", "e", "r", " ", "5">>,
            foreign |-> <<>>]
      [] section = FgAppendix1 ->
           [header |-> <<"A", "p", "p", "e", "n", "d", "i", "x", " ", "1">>,
            first |-> <<"1", ".", "1", " ", "a", "b", "c">>,
            second |-> <<"g", "h", "i", " ", "j", "k", "l">>,
            ending |-> <<"A", "p", "p", "e", "n", "d", "i", "x", " ", "2">>,
            inner |-> <<"C", "h", "a", "p", "t", "e", "r", " ", "5">>,
            foreign |-> <<>>]
      [] section = Eba8 ->
           [header |-> <<"8", ".", " ", "M", "f">>,
            first |-> <<"2", "4", "0", ".", " ", "a", "b", "c">>,
            second |-> <<"2", "4", "1", ".", " ", "a", "b", "d">>,
            ending |-> <<"9", ".", " ", "X", "y">>,
            inner |-> <<"7", ".", " ", "Z", "z">>,
            foreign |-> <<>>]

\* page texts: an empty page, the header alone, the header with a body line, a
\* body line alone, the ending heading between body lines, the ending heading
\* further down the start page, the ending heading below a heading that does
\* not end the section, and a foreign heading between body lines
LocateTexts(section) ==
    LET p == LocateParts(section)
    IN  { <<>>,
          p.header,
          Join(<<p.header, p.first>>),
          p.second,
          Join(<<p.second, p.ending, p.first>>),
          Join(<<p.header, p.first, p.ending, p.second>>) }
        \cup (IF p.inner = <<>> THEN {}
              ELSE {Join(<<p.inner, p.ending, p.second>>)})
        \cup (IF p.foreign = <<>> THEN {}
              ELSE {Join(<<p.second, p.foreign, p.first>>)})

LocateSections(v) ==
    CASE v = "CONC" -> {Conc52A, Conc7}
      [] v = "FG21" -> {Fg2, FgAppendix1}
      [] v = "EBA" -> {Eba8}

InitLocate ==
    /\ variant \in Variants
    /\ \E section \in LocateSections(variant) :
         /\ config = [start_page |-> 1, sections |-> <<section>>]
         /\ \E first \in FirstPages(variant) :
              \E n \in 1..MaxLocatePages :
                 \E texts \in [1..n -> LocateTexts(section)] :
                    pages = [k \in 1..n |->
                               [page_number |-> first + k - 1, text |-> texts[k]]]
    /\ file = NoFile
    /\ total = Len(pages)
    /\ pc = "call"
    /\ sec = 1
    /\ section_info = None
    /\ clauses = <<>>
    /\ call = NoCall
    /\ result = [kind |-> "none"]
    /\ parsers = DefaultParsers
    /\ registered = DefaultRegistered
    /\ parse_history = <<>>
    /\ logged = 0

NextLocate == Locate \/ Segment

SpecLocate == InitLocate /\ [][NextLocate]_vars

-----------------------------------------------------------------------------
(* Properties                                                             *)

\* the last two characters of an id are a blank and the letter
HasSuffix(id, letter) ==
    Len(id) >= 2 /\ id[Len(id) - 1] = " " /\ id[Len(id)] = letter

\* C2: a clause constructed without a clause_type gets REGULATION ("R", the
\* spec's RULE) when its clause_id ends in " R", GUIDANCE when it ends in " G"
\* and UNKNOWN otherwise; a type the caller passes is kept whatever the suffix.
C2_TypeFromSuffix ==
    pc = "constructed" =>
        LET c == clauses[1]
        IN  IF call.clause_type = "absent"
            THEN c.clause_type =
                   (IF HasSuffix(c.clause_id, "R") THEN "R"
                    ELSE IF HasSuffix(c.clause_id, "G") THEN "G"
                    ELSE "UNKNOWN")
            ELSE c.clause_type = call.clause_type

\* no type was passed, the id ends in " G", and the clause is GUIDANCE
C2_Witness ==
    /\ pc = "constructed"
    /\ call.clause_type = "absent"
    /\ HasSuffix(call.clause_id, "G")
    /\ clauses[1].clause_type = "G"

-----------------------------------------------------------------------------
(* CONC segmentation, read line by line                                    *)

\* rest is a possibly empty run of ".<digits>[letter]" components
SubNumbers(rest) ==
    /\ rest # <<>> => rest[1] = "."
    /\ \A k \in 1..Len(rest) :
         /\ rest[k] \in Digit \cup UpperCase \cup {"."}
         /\ rest[k] = "." => k < Len(rest) /\ IsDigit(rest[k + 1])
         /\ rest[k] \in UpperCase =>
              /\ k > 1 /\ IsDigit(rest[k - 1])
              /\ k = Len(rest) \/ rest[k + 1] = "."

\* s is a clause number of the section: the section number and its
\* sub-numbers.  with_sub: a number of section 7 has a first sub-number
\* ".<digits>" that carries no letter
IsClauseNumber(s, section_number, with_sub) ==
    /\ StartsWithAt(s, 1, section_number)
    /\ LET rest == From(s, Len(section_number) + 1)
       IN  /\ SubNumbers(rest)
           /\ (with_sub /\ section_number = Seven) =>
                /\ rest # <<>>
                /\ \A k \in 1..Len(rest) :
                     rest[k] \in UpperCase => \E j \in 2..(k - 1) : rest[j] = "."

\* the length of the clause number that opens a marker line, 0 for other lines
MarkerNumberLen(line, section_number, with_sub) ==
    LET ns == {n \in 1..(Len(line) - 2) :
                 /\ IsClauseNumber(SubSeq(line, 1, n), section_number, with_sub)
                 /\ line[n + 1] = " "
                 /\ line[n + 2] \in {"R", "G"}
                 /\ Len(line) > n + 2 => line[n + 3] = " "}
    IN  IF ns = {} THEN 0 ELSE Min(ns)

\* line k opens a clause.  followed: the marker is followed by whitespace (a
\* blank or the end of a line that is not the end of the text)
IsMarkerLine(lines, k, section_number, followed) ==
    LET n == MarkerNumberLen(lines[k], section_number, followed)
    IN  /\ n > 0
        /\ followed => (Len(lines[k]) > n + 2 \/ k < Len(lines))

\* one clause per marker line, in order: the marker as id, the letter as type,
\* the text up to the next marker line as content
ClausesByLine(text, section_number, page, followed) ==
    LET lines == SplitLines(text)
        ms == SortedSeq({k \in 1..Len(lines) :
                           IsMarkerLine(lines, k, section_number, followed)})
        clause(j) ==
            LET k == ms[j]
                n == MarkerNumberLen(lines[k], section_number, followed)
                nk == IF j < Len(ms) THEN ms[j + 1] ELSE Len(lines) + 1
            IN  [clause_id |-> SubSeq(lines[k], 1, n + 2),
                 clause_type |-> lines[k][n + 2],
                 content |-> StripLines(Join(<<From(lines[k], n + 3)>>
                                             \o SubSeq(lines, k + 1, nk - 1))),
                 page_number |-> page]
    IN  [j \in 1..Len(ms) |-> clause(j)]

\* what a claim about segmentation reads of a clause
Produced(cs) ==
    [j \in 1..Len(cs) |-> [clause_id |-> cs[j].clause_id,
                           clause_type |-> cs[j].clause_type,
                           content |-> cs[j].content,
                           page_number |-> cs[j].page_number]]

\* C3 (as stated): the CONC segmenter yields exactly one clause per marker
\* "<section number>[.<digits>[letter]]* <R|G>" that begins a line.
C3_AsStated ==
    (pc = "segmented" /\ variant = "CONC") =>
        Produced(clauses) = ClausesByLine(section_info.text, config.sections[sec].number,
                                          section_info.pages[1], FALSE)

\* C3 (amended): the CONC segmenter yields exactly one clause per marker that
\* begins a line and is followed by whitespace, where a marker of section 7
\* has at least one sub-number; the clause has the marker as id, the type of
\* the letter, the text up to the next marker (or the end) as content, and the
\* page of the text.
C3_OneClausePerMarker ==
    (pc = "segmented" /\ variant = "CONC") =>
        Produced(clauses) = ClausesByLine(section_info.text, config.sections[sec].number,
                                          section_info.pages[1], TRUE)

\* section 5.2A with the markers 5.2A.1 R and 5.2A.2 G on page 41
C3_Witness ==
    /\ pc = "segmented"
    /\ variant = "CONC"
    /\ config.sections[sec] = Conc52A
    /\ Len(clauses) = 2
    /\ clauses[1].clause_id = <<"5", ".", "2", "A", ".", "1", " ", "R">>
    /\ clauses[1].clause_type = "R"
    /\ clauses[2].clause_id = <<"5", ".", "2", "A", ".", "2", " ", "G">>
    /\ clauses[2].clause_type = "G"
    /\ clauses[1].page_number = 41
    /\ clauses[2].page_number = 41

-----------------------------------------------------------------------------
(* EBA segmentation, read line by line                                     *)

\* the number of digits a line starts with
LeadingDigits(line) ==
    Max({n \in 0..Len(line) : \A j \in 1..n : IsDigit(line[j])})

\* line k starts with a number followed by "." and whitespace (a blank, or the
\* end of a line that is not the end of the text)
IsNumberedLine(lines, k) ==
    LET line == lines[k]
        n == LeadingDigits(line)
    IN  /\ n > 0
        /\ Len(line) > n
        /\ line[n + 1] = "."
        /\ \/ Len(line) > n + 1 /\ line[n + 2] = " "
           \/ Len(line) = n + 1 /\ k < Len(lines)

\* the numbers of the numbered lines of 2 or 3 digits, in order
ParagraphNumbers(text) ==
    LET lines == SplitLines(text)
        ms == SortedSeq({k \in 1..Len(lines) :
                           IsNumberedLine(lines, k) /\ LeadingDigits(lines[k]) \in {2, 3}})
    IN  [j \in 1..Len(ms) |-> SubSeq(lines[ms[j]], 1, LeadingDigits(lines[ms[j]]))]

\* C4: the EBA segmenter emits one clause for each number of exactly 2 or 3
\* digits that starts a line and is followed by "." and whitespace, and for no
\* other number; every clause id is all digits and every clause is a RULE.
C4_TwoOrThreeDigits ==
    (pc = "segmented" /\ variant = "EBA") =>
        /\ [j \in 1..Len(clauses) |-> clauses[j].clause_id]
             = ParagraphNumbers(section_info.text)
        /\ \A j \in 1..Len(clauses) :
             /\ IsDigits(clauses[j].clause_id)
             /\ Len(clauses[j].clause_id) \in {2, 3}
             /\ clauses[j].clause_type = "R"

\* a text with numbered lines of 1 or 4 digits beside a paragraph: only the
\* paragraph became a clause
C4_Witness ==
    /\ pc = "segmented"
    /\ variant = "EBA"
    /\ LET lines == SplitLines(section_info.text)
       IN  \E k \in 1..Len(lines) :
             IsNumberedLine(lines, k) /\ LeadingDigits(lines[k]) \notin {2, 3}
    /\ Len(clauses) = 1
    /\ clauses[1].clause_type = "R"

-----------------------------------------------------------------------------
(* Clause ids of one segmentation                                          *)

\* the number of a clause: its id without the type letter the CONC and FG21
\* segmenters append
ClauseNumber(v, c) ==
    IF v = "EBA" THEN c.clause_id ELSE SubSeq(c.clause_id, 1, Len(c.clause_id) - 2)

\* the lines of the text that start with the marker of clause c
LinesCarrying(v, text, c) ==
    LET lines == SplitLines(text)
        number == ClauseNumber(v, c)
        ends(line) == Len(line) = Len(number) \/ line[Len(number) + 1] = " "
    IN  {k \in 1..Len(lines) :
           CASE v = "CONC" -> StartsWithAt(lines[k], 1, c.clause_id)
             [] v = "FG21" -> StartsWithAt(lines[k], 1, number) /\ ends(lines[k])
             [] v = "EBA" -> StartsWithAt(lines[k], 1, number \o <<".">>)}

-----------------------------------------------------------------------------
(* Terminating headings                                                    *)

\* line opens with Annex (EBA), Chapter <n> or Appendix (FG21)
IsTerminator(v, line) ==
    CASE v = "EBA" -> StartsWithAt(line, 1, EbaAnnex)
      [] v = "FG21" ->
           \/ StartsWithAt(line, 1, Appendix)
           \/ /\ StartsWithAt(line, 1, Chapter \o <<" ">>)
              /\ Len(line) > Len(Chapter) + 1
              /\ IsDigit(line[Len(Chapter) + 2])
      [] OTHER -> FALSE

\* the position in text at which line k starts
LineOffset(lines, k) ==
    Len(Join(SubSeq(lines, 1, k - 1))) + (IF k > 1 THEN 2 ELSE 1)

\* C10 (as stated): once a terminating heading occurs in the section text, no
\* clause is emitted whose marker lies after that line, and no text after that
\* line is in the content of a clause.
C10_StopsAtTerminator ==
    (pc = "segmented" /\ variant \in {"EBA", "FG21"}) =>
        LET lines == SplitLines(section_info.text)
            ts == {k \in 1..Len(lines) : IsTerminator(variant, lines[k])}
            first == Min(ts)
            before == Join(SubSeq(lines, 1, first - 1))
        IN  ts # {} =>
              \A j \in 1..Len(clauses) :
                 /\ clauses[j].pos + 1 < LineOffset(lines, first)
                 /\ Contains(before, clauses[j].content)

-----------------------------------------------------------------------------
(* The EBA locator and the table of contents                               *)

\* a line of the page reads as the header of the section
HasHeader(page, section) ==
    LET lines == SplitLines(page.text)
        header == section.number \o <<".", " ">> \o section.title
    IN  \E k \in 1..Len(lines) : StartsWithAtNoCase(lines[k], 1, header)

\* the pages the EBA locator may take as the start of the section
StartPages(ps, section) ==
    {k \in 1..Len(ps) :
       /\ HasHeader(ps[k], section)
       /\ \/ ps[k].page_number >= 50
          \/ Contains(ps[k].text, <<"2", "4", "0", ".">>)}

\* the members of a sequence
Members(s) == {s[k] : k \in 1..Len(s)}

\* C5: the EBA locator takes a page with the section header as the start only
\* if its number is at least 50 or its text contains "240."; the first such
\* page is the first page of the span, no page before it (a table of contents
\* with the header) is in the span, and without such a page nothing is located.
C5_TocRejected ==
    (variant = "EBA" /\ call.op = "locate") =>
        LET starts == StartPages(pages, config.sections[sec])
        IN  IF starts = {} THEN ~section_info.found
            ELSE /\ section_info.found
                 /\ section_info.pages # <<>>
                 /\ section_info.pages[1] = pages[Min(starts)].page_number
                 /\ \A k \in 1..(Min(starts) - 1) :
                      pages[k].page_number \notin Members(section_info.pages)

\* a table-of-contents page with the header came first and was passed over
C5_Witness ==
    /\ variant = "EBA"
    /\ call.op = "locate"
    /\ section_info.found
    /\ HasHeader(pages[1], config.sections[sec])
    /\ pages[1].page_number < 50
    /\ ~Contains(pages[1].text, <<"2", "4", "0", ".">>)
    /\ section_info.pages[1] = pages[2].page_number

-----------------------------------------------------------------------------
(* Page attribution                                                        *)

\* C6: the page of every clause is one of section_pages, and it is -1 only
\* when section_pages is empty.
C6_PageInSectionPages ==
    pc = "segmented" =>
        \A j \in 1..Len(clauses) :
            IF section_info.pages = <<>>
            THEN clauses[j].page_number = -1
            ELSE clauses[j].page_number \in Members(section_info.pages)

\* a caller passed section_pages that leave out a page on which the clause
\* number occurs, and the clause is on one of the pages passed
C6_Witness ==
    /\ pc = "segmented"
    /\ call.op = "direct"
    /\ clauses # <<>>
    /\ section_info.pages # <<>>
    /\ \E n \in 1..Len(pages) :
         /\ pages[n].page_number \notin Members(section_info.pages)
         /\ Contains(pages[n].text, ClauseNumber(variant, clauses[1]))
    /\ clauses[1].page_number \in Members(section_info.pages)

\* the positions in section_pages of the pages whose text has the clause number
PagesWithNumber(c) ==
    {k \in 1..Len(section_info.pages) :
       \E n \in 1..Len(pages) :
          /\ pages[n].page_number = section_info.pages[k]
          /\ Contains(pages[n].text, ClauseNumber(variant, c))}

\* C7 (as stated): the page of a clause is the first page of section_pages
\* whose text has the clause number, and the first page of section_pages when
\* no page has it.
C7_FirstPageInOrder ==
    (pc = "segmented" /\ section_info.pages # <<>>) =>
        \A j \in 1..Len(clauses) :
            clauses[j].page_number =
                IF PagesWithNumber(clauses[j]) # {}
                THEN section_info.pages[Min(PagesWithNumber(clauses[j]))]
                ELSE section_info.pages[1]

\* C8 (as stated): the text of the page a located and segmented clause is
\* attributed to contains the clause number.
C8_RoundTrip ==
    (pc = "segmented" /\ call.op = "locate") =>
        \A j \in 1..Len(clauses) :
            \E n \in 1..Len(pages) :
               /\ pages[n].page_number = clauses[j].page_number
               /\ Contains(pages[n].text, ClauseNumber(variant, clauses[j]))

-----------------------------------------------------------------------------
(* parse and validate                                                      *)

\* C1 (as stated): parse(file) raises the invalid-document ValueError when
\* validate(file) is false, and returns a ParsedDocument without raising when
\* validate(file) is true.
C1_ParseFollowsValidate ==
    (call.op = "parse" /\ pc \in {"returned", "raised"}) =>
        IF ValidateDocument(variant, file)
        THEN pc = "returned" /\ result.kind = "ParsedDocument"
        ELSE pc = "raised" /\ result.kind = "ValueError"

-----------------------------------------------------------------------------
(* Clause content                                                          *)

\* C11: every clause a segmenter returns, in any variant, has content that is
\* not empty after cleaning - also when its marker is directly followed by the
\* next marker or when cleaning removes every line of its content.
C11_ContentNonEmpty ==
    pc = "segmented" =>
        \A k \in 1..Len(clauses) : clauses[k].content # <<>>

-----------------------------------------------------------------------------
(* Locating a section: absent exactly when no page starts it               *)

\* the page is one a locator accepts as the start of the section: it has text,
\* the start pattern of the variant matches in it and, for EBA, the page is
\* page 50 or later or its text contains "240."
StartAccepted(v, page, section) ==
    LET text == page.text
    IN  /\ text # <<>>
        /\ \E i \in Positions(text) :
             CASE v = "CONC" ->
                    ConcStartMatchEnd(text, i, section.number, section.title) > 0
               [] v = "FG21" ->
                    FgStartMatchEnd(text, i, section.number, section.title) > 0
               [] v = "EBA" ->
                    EbaStartMatchEnd(text, i, section.number, section.title) > 0
        /\ v = "EBA" => \/ page.page_number >= 50
                        \/ Contains(text, <<"2", "4", "0", ".">>)

\* C12: in every variant locate returns None if and only if no page of the
\* sequence is accepted as the start of the section; once a start is accepted a
\* span is returned (with the accepted page as its first page), also when no
\* end boundary is found and when nothing follows the header.
C12_AbsentIffNoStart ==
    (call.op = "locate" /\ pc \in {"located", "absent"}) =>
        LET accepted == {k \in 1..Len(pages) :
                           StartAccepted(variant, pages[k], config.sections[sec])}
        IN  /\ (result.kind = "None") <=> (accepted = {})
            /\ (result.kind = "span") <=> (accepted # {})
            /\ accepted # {} =>
                 /\ section_info.found
                 /\ section_info.pages # <<>>
                 /\ section_info.pages[1] = pages[Min(accepted)].page_number

\* the header is the whole text of the last page: the span has no text and runs
\* to the end of the pages without an end boundary, and is still returned
C12_Witness ==
    /\ call.op = "locate"
    /\ result.kind = "span"
    /\ section_info.text = <<>>
    /\ section_info.pages = <<pages[Len(pages)].page_number>>
    /\ StartAccepted(variant, pages[Len(pages)], config.sections[sec])
    /\ Len(pages) >= 2

-----------------------------------------------------------------------------
(* The section loop of parse                                               *)

\* the clauses of the first n configured sections: those of every section that
\* is located, in the order the sections are configured
RECURSIVE ClausesOfLocated(_)
ClausesOfLocated(n) ==
    IF n = 0 THEN <<>>
    ELSE LET section == sections_to_extract(variant, config)[n]
             info == FindSection(variant, pages, section)
         IN  ClausesOfLocated(n - 1) \o
             (IF info.found THEN ExtractClauses(variant, info, section, pages)
              ELSE <<>>)

\* the configured sections that are not located in the pages
NotLocated ==
    {n \in 1..Len(sections_to_extract(variant, config)) :
       ~FindSection(variant, pages, sections_to_extract(variant, config)[n]).found}

\* C13: when parse is called on a valid document and a configured section is
\* not located, no error is raised: parse returns a document that has no clause
\* of that section and has the clauses of every located section, grouped in
\* the order the sections are configured.
C13_MissingSectionSkipped ==
    (/\ call.op = "parse"
     /\ pc \in {"returned", "raised"}
     /\ result.kind # "ValueError"
     /\ NotLocated # {}) =>
        /\ pc = "returned"
        /\ result.kind = "ParsedDocument"
        /\ result.clauses = ClausesOfLocated(Len(sections_to_extract(variant, config)))
        /\ \A n \in NotLocated : \A k \in 1..Len(result.clauses) :
             result.clauses[k].section # sections_to_extract(variant, config)[n].number

-----------------------------------------------------------------------------
(* validate_document                                                       *)

\* the text of some page among the first n pages of the file has one of the
\* marker phrases of the variant
PhraseInFirstPages(n) ==
    \E k \in 1..n :
        /\ k <= file.front + Len(file.body)
        /\ LET text == IF k > file.front THEN file.body[k - file.front]
                       ELSE IF k = file.marker.page THEN file.marker.text
                       ELSE <<>>
           IN  \/ variant = "CONC" /\ Contains(text, <<"C", "O", "N", "C">>)
               \/ variant = "FG21" /\ Contains(text, <<"F", "G", "2", "1", "/", "1">>)
               \/ variant = "EBA" /\ Contains(text, <<"G", "u", "i", "d", "e", "l",
                                                       "i", "n", "e", "s">>)

\* C14: validate(file) never raises; it returns true exactly when the file
\* exists, is named .pdf, opens and reads without an error, has at least 10
\* pages (CONC, FG21) or 20 pages (EBA) and a marker phrase of the variant
\* occurs in its first 5 (CONC, FG21) or 10 (EBA) pages, and false otherwise.
C14_ValidateIsTotal ==
    call.op = "validate" =>
        /\ pc \in {"call", "returned"}
        /\ pc = "returned" =>
             /\ result.kind = "bool"
             /\ result.value =
                  (/\ file.exists
                   /\ file.pdf
                   /\ file.opens
                   /\ file.front + Len(file.body) >= (IF variant = "EBA" THEN 20 ELSE 10)
                   /\ PhraseInFirstPages(IF variant = "EBA" THEN 10 ELSE 5))

\* a document of exactly the minimum page count whose only marker phrase is on
\* the last page the validator reads is accepted
C14_Witness ==
    /\ call.op = "validate"
    /\ pc = "returned"
    /\ result.value
    /\ file.front + Len(file.body) = (IF variant = "EBA" THEN 20 ELSE 10)
    /\ file.marker.page = (IF variant = "EBA" THEN 10 ELSE 5)

-----------------------------------------------------------------------------
(* The registry                                                            *)

\* C15: register(jurisdiction, document_type, parser_class) with a class derived
\* from the parser base returns normally; afterwards the type is listed for the
\* jurisdiction, create returns an instance of the class, and every other
\* registered pair creates an instance of the same class as before.  With a
\* class that is not derived from the base it raises ValueError and the
\* registry is unchanged.
C15_RegisterAddsOnly ==
    [][call'.op = "register_parser" =>
         LET j == call'.jurisdiction
             t == call'.document_type
             before == RegisteredParsers(parsers, 1)
         IN  IF call'.parser_class = "InvalidParser"
             THEN /\ result'.kind = "ValueError"
                  /\ parsers' = parsers
             ELSE /\ result'.kind = "None"
                  /\ t \in Members(get_supported_types_for_jurisdiction(parsers', j))
                  /\ create_parser(parsers', j, t) =
                        [kind |-> "parser", parser_class |-> call'.parser_class]
                  /\ \A k \in 1..Len(before) :
                       (before[k].jurisdiction # Lower(j) \/ before[k].document_type # t)
                       => create_parser(parsers', before[k].jurisdiction,
                                        before[k].document_type)
                          = [kind |-> "parser", parser_class |-> before[k].parser_class]
    ]_vars

\* a type was registered under "UK" next to the two types the jurisdiction has:
\* it is listed and created, and the other two are created as before
C15_Witness ==
    /\ call.op = "register_parser"
    /\ result.kind = "None"
    /\ call.jurisdiction = <<"U", "K">>
    /\ call.document_type = "MOCK_DOC"
    /\ get_supported_types_for_jurisdiction(parsers, Uk) =
          <<"FCA_CONC", "FCA_FG21", "MOCK_DOC">>
    /\ create_parser(parsers, Uk, "MOCK_DOC").parser_class = call.parser_class
    /\ create_parser(parsers, Uk, "FCA_CONC").parser_class = "UKFCACoNCParser"
    /\ create_parser(parsers, Uk, "FCA_FG21").parser_class = "UKFCAFg21Parser"

\* C16: in every registry state create(jurisdiction, document_type) returns a
\* parser exactly when the type is in listTypesFor(jurisdiction), the
\* jurisdiction compared without regard to case and the type exactly;
\* otherwise it raises ValueError with the available jurisdictions (the
\* jurisdiction is unknown) or the available types of the jurisdiction (the
\* type is unknown).  The registry is unchanged either way.
C16_CreateIffListed ==
    [][call'.op = "create_parser" =>
         LET j == call'.jurisdiction
             types == get_supported_types_for_jurisdiction(parsers, j)
             listed == call'.document_type \in Members(types)
             known == Lower(j) \in Members(get_supported_jurisdictions(parsers))
         IN  /\ parsers' = parsers
             /\ (result'.kind = "parser") <=> listed
             /\ ~listed =>
                  /\ result'.kind = "ValueError"
                  /\ ~known => /\ result'.lists = "jurisdictions"
                               /\ result'.available = get_supported_jurisdictions(parsers)
                  /\ known => /\ result'.lists = "types"
                              /\ result'.available = types
    ]_vars

\* a parser registered at run time is created for "UK" written in capitals
C16_Witness ==
    /\ call.op = "create_parser"
    /\ call.jurisdiction = <<"U", "K">>
    /\ call.document_type = "MOCK_DOC"
    /\ result.kind = "parser"
    /\ result.parser_class = "MockParser"

-----------------------------------------------------------------------------
(* Detecting the parser of a file                                          *)

\* the registered pairs (by their place in the order of registration) that a
\* detect call tries: all of them, or those of the hinted jurisdiction
TriedPairs ==
    {k \in 1..Len(registered) :
       \/ call.jurisdiction = <<>>
       \/ registered[k].jurisdiction = Lower(call.jurisdiction)}

\* the tried pairs whose parser accepts the file of the call
AcceptingPairs ==
    {k \in TriedPairs :
       create_parser(parsers, registered[k].jurisdiction,
                     registered[k].document_type).parser_class \in call.accepts}

\* when the jurisdiction of a registered pair was first registered
JurisdictionSince(k) ==
    Min({i \in 1..Len(registered) :
           registered[i].jurisdiction = registered[k].jurisdiction})

\* the outcome of a detect call that returns the registered pair k
DetectReturns(k) ==
    /\ result.kind = "parser"
    /\ result.jurisdiction = registered[k].jurisdiction
    /\ result.document_type = registered[k].document_type
    /\ result.parser_class \in call.accepts
    /\ result.parser_class =
          create_parser(parsers, result.jurisdiction, result.document_type).parser_class

\* the outcome of a detect call that finds no parser
DetectRaises ==
    /\ result.kind = "ValueError"
    /\ result.lists = "parsers"
    /\ Members(result.available) = Members(registered)

\* C17 as it is stated: detect tries the variants in the order they were
\* registered and returns the first that accepts the file.
C17_AsStated ==
    call.op = "get_parser_for_file" =>
        IF AcceptingPairs = {} THEN DetectRaises
        ELSE DetectReturns(Min(AcceptingPairs))

\* C17: detect(file, jurisdiction_hint) tries the variants jurisdiction by
\* jurisdiction, the jurisdictions in the order they were first registered and
\* the types of a jurisdiction in the order they were registered (only the
\* hinted jurisdiction when a hint is given), and returns the first variant
\* whose validate(file) is true with its jurisdiction and document type; it
\* raises ValueError listing the registered parsers exactly when no tried
\* variant accepts the file.
C17_FirstAcceptingInRegistryOrder ==
    call.op = "get_parser_for_file" =>
        IF AcceptingPairs = {} THEN DetectRaises
        ELSE \E k \in AcceptingPairs :
                /\ DetectReturns(k)
                /\ \A i \in AcceptingPairs \ {k} :
                     \/ JurisdictionSince(k) < JurisdictionSince(i)
                     \/ JurisdictionSince(k) = JurisdictionSince(i) /\ k < i

\* without a hint, a file accepted by the EBA parser and by a parser that was
\* registered later under "uk" is given to the parser under "uk"
C17_Witness ==
    /\ call.op = "get_parser_for_file"
    /\ call.jurisdiction = <<>>
    /\ result.kind = "parser"
    /\ result.jurisdiction = Uk
    /\ result.document_type = "MOCK_DOC"
    /\ "EUEBAGl202006Parser" \in call.accepts
    /\ result.parser_class \in call.accepts

-----------------------------------------------------------------------------
(* The operation history                                                   *)

\* C18: after n operations were logged on one service since its construction
\* or its last clear, the history holds exactly min(n, 1000) records, and they
\* are the most recent ones in the order they were logged: the n-th operation
\* is last and the oldest are evicted first.
C18_HistoryKeepsLast1000 ==
    call.op \in {"_log_parse_operation", "clear_parse_history"} =>
        LET n == logged
            kept == IF n < 1000 THEN n ELSE 1000
        IN  /\ Len(parse_history) = kept
            /\ \A k \in 1..kept :
                 parse_history[k].operation_id = n - kept + k - 1

\* more than 1000 operations were logged: the first record kept is not the
\* first one logged
C18_Witness ==
    /\ call.op = "_log_parse_operation"
    /\ logged > 1000
    /\ Len(parse_history) = 1000
    /\ parse_history[1].operation_id = logged - 1000
    /\ parse_history[1000].operation_id = logged - 1

-----------------------------------------------------------------------------
(* Parsing through the service                                             *)

\* the exception behind a failed attempt, by what happened to it
CauseOf(outcome) == IF outcome = "missing" THEN "FileNotFoundError" ELSE "ValueError"

\* C19: a batch parse (parse_document without a document type) attempts every
\* registered type of the jurisdiction, also after an earlier type failed: each
\* attempt leaves its record in the history, in the order of the types, before
\* the record of the batch.  The call returns a map with exactly the types that
\* parsed, and raises RuntimeError, listing every failed type with its cause,
\* exactly when every attempted type failed.
C19_BatchSurvivesFailures ==
    [][(/\ call'.op = "parse_all"
        /\ get_supported_types_for_jurisdiction(parsers, call'.jurisdiction) # <<>>) =>
         LET types == get_supported_types_for_jurisdiction(parsers, call'.jurisdiction)
             outcomes == call'.outcomes
             before == Len(parse_history)
             parsed == {t \in Members(types) : outcomes[t] = "parsed"}
         IN  /\ Len(parse_history') = before + Len(types) + 1
             /\ SubSeq(parse_history', 1, before) = parse_history
             /\ \A k \in 1..Len(types) :
                  /\ parse_history'[before + k].document_type = types[k]
                  /\ parse_history'[before + k].success = (types[k] \in parsed)
             /\ parse_history'[before + Len(types) + 1].document_type = "ALL"
             /\ (result'.kind = "RuntimeError") <=> (parsed = {})
             /\ (result'.kind = "dict") <=> (parsed # {})
             /\ result'.kind = "dict" =>
                  /\ Members(result'.documents) = parsed
                  /\ Len(result'.documents) = Cardinality(parsed)
             /\ result'.kind = "RuntimeError" =>
                  /\ Len(result'.errors) = Len(types)
                  /\ \A k \in 1..Len(types) :
                       /\ result'.errors[k].document_type = types[k]
                       /\ result'.errors[k].error = CauseOf(outcomes[types[k]])
    ]_vars

\* the first type of "uk" failed and the second was still parsed and returned
C19_Witness ==
    /\ call.op = "parse_all"
    /\ Lower(call.jurisdiction) = Uk
    /\ call.outcomes["FCA_CONC"] = "error"
    /\ call.outcomes["FCA_FG21"] = "parsed"
    /\ result.kind = "dict"
    /\ result.documents = <<"FCA_FG21">>
    /\ Len(parse_history) >= 3
    /\ ~parse_history[Len(parse_history) - 2].success
    /\ parse_history[Len(parse_history) - 1].success

-----------------------------------------------------------------------------
(* Reading the history                                                     *)

\* the last n records of a history, all of them when it has fewer
MostRecent(history, n) ==
    IF n <= 0 THEN <<>>
    ELSE IF n >= Len(history) THEN history
    ELSE SubSeq(history, Len(history) - n + 1, Len(history))

\* C21: get_parse_history(limit=n) returns at most n records, the n most
\* recent ones in logged order, for every integer n (none for n below 1);
\* without a limit it
\* returns all records; the returned list is a copy, so neither the call nor a
\* change of the returned list changes the history of the service.
C21_LimitReturnsMostRecent ==
    [][/\ call'.op = "get_parse_history" =>
            /\ parse_history' = parse_history
            /\ IF call'.limit.none
               THEN result'.records = parse_history
               ELSE /\ Len(result'.records) <= (IF call'.limit.n < 0 THEN 0 ELSE call'.limit.n)
                    /\ result'.records = MostRecent(parse_history, call'.limit.n)
       /\ call'.op = "returned.clear" => parse_history' = parse_history
    ]_vars

-----------------------------------------------------------------------------
(* The configured sections                                                 *)

\* the sections a parse is to work through: the map of the configuration when
\* one is provided, the defaults of the parser when it is None
SectionsToProcess ==
    IF config.sections_to_extract.none
    THEN SECTIONS_TO_EXTRACT(variant)
    ELSE config.sections_to_extract.map

\* C22: when config.sections_to_extract is provided (not None), parse works
\* through exactly the sections of that map, in its order, and through none of
\* the defaults of the parser; the defaults are used only when it is None.  The
\* section loop never passes the end of that list, a section it found is the
\* section of the list at the position of the loop, and the metadata of the
\* returned document names the sections of the list.
C22_ConfiguredSectionsOnly ==
    call.op = "parse" =>
        /\ pc \in {"sections", "found"} => sec <= Len(SectionsToProcess) + 1
        /\ pc = "found" =>
             section_info = FindSection(variant, pages, SectionsToProcess[sec])
        /\ result.kind = "ParsedDocument" =>
             result.metadata.sections_extracted =
                 [k \in 1..Len(SectionsToProcess) |-> SectionsToProcess[k].number]

\* the ids of the sections the parse worked through and located in the pages
LocatedSections ==
    LET sections == sections_to_extract(variant, config)
    IN  {sections[k].number : k \in
            {n \in 1..Len(sections) : FindSection(variant, pages, sections[n]).found}}

\* C23: metadata.sections_extracted of a parsed document lists the sections
\* that were extracted: a section id is in it only if the section was located
\* in the document, and every located configured section is in it.
C23_SectionsExtractedAreLocated ==
    (call.op = "parse" /\ result.kind = "ParsedDocument") =>
        Members(result.metadata.sections_extracted) = LocatedSections

-----------------------------------------------------------------------------
(* The span of a located section                                           *)

\* the pages accepted as the start of the section, by their index
AcceptedStarts ==
    {k \in 1..Len(pages) : StartAccepted(variant, pages[k], config.sections[sec])}

\* the position after the first match of the start pattern in a text
StartEnd(v, text, section) ==
    LET ends == [i \in Positions(text) |->
                   CASE v = "CONC" ->
                          ConcStartMatchEnd(text, i, section.number, section.title)
                     [] v = "FG21" ->
                          FgStartMatchEnd(text, i, section.number, section.title)
                     [] v = "EBA" ->
                          EbaStartMatchEnd(text, i, section.number, section.title)]
    IN  ends[Min({i \in Positions(text) : ends[i] > 0})]

\* the pages with text among pages a..b
WithText(a, b) == SelectSeq(SubSeq(pages, a, b), LAMBDA p : p.text # <<>>)

\* the span of a section that starts on page s and ends on page e at position
\* h of its text: the start page from the header on, the pages between them,
\* and the text of page e before h
SpanEndingAt(s, e, h) ==
    LET between == WithText(s + 1, e - 1)
        section == config.sections[sec]
        text_s == pages[s].text
    IN  [text |-> Join(<<Strip(From(text_s, StartEnd(variant, text_s, section)))>>
                       \o [k \in 1..Len(between) |-> Strip(between[k].text)]
                       \o <<Strip(SubSeq(pages[e].text, 1, h - 1))>>),
         pages |-> <<pages[s].page_number>>
                   \o [k \in 1..Len(between) |-> between[k].page_number]]

\* the heading the CONC locator detects on a page: the position of the first
\* match of its heading pattern, 0 when there is none
DetectedHeading(text) == FirstPos({i \in Positions(text) : ConcEndMatches(text, i)})

\* C24: CONC locator, inside a section, for every configured section id: a
\* page whose detected heading has a top-level number different from the
\* top-level number of the section ends the section.  The span ends at the
\* detected heading of that page or of an earlier page: only the text before
\* the heading is appended and no later page contributes.
C24_ForeignHeadingEndsSection ==
    (variant = "CONC" /\ call.op = "locate" /\ pc = "located") =>
        LET section == config.sections[sec]
            s == Min(AcceptedStarts)
            foreign == {k \in (s + 1)..Len(pages) :
                          /\ DetectedHeading(pages[k].text) > 0
                          /\ BeforeDot(ConcEndGroup(pages[k].text,
                                                    DetectedHeading(pages[k].text)))
                               # BeforeDot(section.number)}
        IN  foreign # {} =>
              \E e \in (s + 1)..Min(foreign) :
                 /\ DetectedHeading(pages[e].text) > 0
                 /\ section_info.text =
                      SpanEndingAt(s, e, DetectedHeading(pages[e].text)).text
                 /\ section_info.pages =
                      SpanEndingAt(s, e, DetectedHeading(pages[e].text)).pages

-----------------------------------------------------------------------------
(* Subsection names                                                        *)

\* the title of the longest key that matches the line that decides the lookup
\* of a clause, "" when no line before the clause is matched
LongestKeyTitle(c) ==
    IF variant = "FG21"
    THEN find_subsection_name_longest(FgSubsectionMapping, FALSE, FgLinesBefore,
                                      section_info.text, c.pos)
    ELSE find_subsection_name_longest(EbaSubsectionMapping, TRUE, EbaLinesBefore,
                                      section_info.text, c.pos)

\* C25: fixed-mapping subsection lookup (FG21 and EBA): when several keys of
\* the table match the end of the same preceding line, the title of the longest
\* matching key is returned (declaration order only breaks ties between keys of
\* equal length); each clause carries that title, or the title of the clause
\* before it when its own lookup finds nothing.
C25_LongestKeyPreferred ==
    (pc = "segmented" /\ variant \in {"FG21", "EBA"}) =>
        \A j \in 1..Len(clauses) :
           clauses[j].subsection_name =
               IF LongestKeyTitle(clauses[j]) # "" THEN LongestKeyTitle(clauses[j])
               ELSE IF j = 1 THEN ""
               ELSE clauses[j - 1].subsection_name

\* the title the lookup of a clause finds, "" when it finds none
LookupTitle(c) ==
    IF variant = "FG21"
    THEN find_subsection_name(FgSubsectionMapping, FALSE, FgLinesBefore,
                              section_info.text, c.pos)
    ELSE find_subsection_name(EbaSubsectionMapping, TRUE, EbaLinesBefore,
                              section_info.text, c.pos)

\* the clauses up to clause j, by their index, for which the lookup finds a title
FoundUpTo(j) == {k \in 1..j : LookupTitle(clauses[k]) # ""}

\* C27: within one section (FG21 and EBA), the subsection_name of each clause
\* is the title the lookup finds for the nearest clause at or before it, in
\* document order, for which the lookup finds a title: a found title persists
\* over following clauses whose own lookup finds nothing, is replaced as soon
\* as a later lookup finds a title, and is empty before the first found title.
C27_TitlePersists ==
    (pc = "segmented" /\ variant \in {"FG21", "EBA"}) =>
        \A j \in 1..Len(clauses) :
           clauses[j].subsection_name =
               IF FoundUpTo(j) = {} THEN ""
               ELSE LookupTitle(clauses[Max(FoundUpTo(j))])

\* three clauses or more: the lookup of the first finds a title, the lookup of
\* the second finds nothing and the title persists, the lookup of the third
\* finds another title, which replaces it
C27_Witness ==
    /\ pc = "segmented"
    /\ variant \in {"FG21", "EBA"}
    /\ Len(clauses) >= 3
    /\ LookupTitle(clauses[1]) # ""
    /\ LookupTitle(clauses[2]) = ""
    /\ clauses[2].subsection_name = LookupTitle(clauses[1])
    /\ LookupTitle(clauses[3]) \notin {"", LookupTitle(clauses[1])}
    /\ clauses[3].subsection_name = LookupTitle(clauses[3])

-----------------------------------------------------------------------------
(* Cleaned content                                                         *)

\* the lines of a content; an empty content has none
ContentLines(content) == IF content = <<>> THEN <<>> ELSE SplitLines(content)

\* a line of punctuation or whitespace only: no letter and no digit in it
OnlyPunctuation(line) ==
    \A k \in 1..Len(line) :
       ~(line[k] \in UpperCase \/ line[k] \in LowerCase \/ IsDigit(line[k]))

\* C26: for every variant, the content of each emitted clause contains no line
\* of fewer than 3 characters, no line of digits only and no line of
\* punctuation or whitespace only.
C26_ContentIsCleaned ==
    pc = "segmented" =>
        \A j \in 1..Len(clauses) :
           LET lines == ContentLines(clauses[j].content)
           IN  \A k \in 1..Len(lines) :
                  /\ Len(lines[k]) >= 3
                  /\ ~IsDigits(lines[k])
                  /\ ~OnlyPunctuation(lines[k])

-----------------------------------------------------------------------------
(* Appendix sections of FG21                                               *)

\* C28: an FG21 appendix section yields exactly one clause per located
\* appendix, whatever its text contains: clause_id '<section id> G',
\* clause_type GUIDANCE, empty subsection_name, content equal to the cleaned
\* text of the whole located span, page_number equal to the first page of the
\* span.
C28_OneClausePerAppendix ==
    (/\ pc = "segmented"
     /\ call.op = "locate"
     /\ variant = "FG21"
     /\ StartsWithAt(config.sections[sec].number, 1,
                     <<"A", "p", "p", "e", "n", "d", "i", "x">>)) =>
        /\ Len(clauses) = 1
        /\ clauses[1].clause_id = config.sections[sec].number \o <<" ", "G">>
        /\ clauses[1].clause_type = "G"
        /\ clauses[1].subsection_name = ""
        /\ clauses[1].content = CleanClauseContent(section_info.text)
        /\ clauses[1].page_number = section_info.pages[1]

\* an appendix located over two pages whose text holds a numbered line
C28_Witness ==
    /\ pc = "segmented"
    /\ call.op = "locate"
    /\ variant = "FG21"
    /\ config.sections[sec] = FgAppendix1
    /\ Len(section_info.pages) = 2
    /\ Contains(section_info.text, <<"1", ".", "1", " ", "a", "b", "c">>)
    /\ Len(clauses) = 1
    /\ clauses[1].page_number = section_info.pages[1]
    /\ clauses[1].content = section_info.text

-----------------------------------------------------------------------------
(* The pages of a located span                                             *)

\* C29: every span returned by locate, in every variant, has a non-empty pages
\* list whose entries are distinct page numbers of the input sequence in
\* strictly increasing order; its first entry is the page on which the start
\* was accepted; pages with empty text are never in it.
C29_SpanPagesWellFormed ==
    (call.op = "locate" /\ pc \in {"located", "segmented"}) =>
        LET p == section_info.pages
        IN  /\ Len(p) > 0
            /\ \A i \in 1..Len(p) : p[i] \in PageNumbers(pages)
            /\ \A i, j \in 1..Len(p) : i < j => p[i] < p[j]
            /\ AcceptedStarts # {}
            /\ p[1] = pages[Min(AcceptedStarts)].page_number
            /\ \A k \in 1..Len(pages) :
                  pages[k].text = <<>> => \A i \in 1..Len(p) : p[i] # pages[k].page_number

\* a span that leaves out the page without text between its two pages
C29_Witness ==
    /\ call.op = "locate"
    /\ pc = "located"
    /\ Len(pages) = 3
    /\ pages[2].text = <<>>
    /\ section_info.pages = <<pages[1].page_number, pages[3].page_number>>

-----------------------------------------------------------------------------
(* The end of a located span                                               *)

\* whether a heading that ends the section stands at position i of a text: the
\* end pattern of the variant matches there and, for CONC, the heading is one
\* the locator takes as the end of the section
EndsSectionAt(v, text, i, section) ==
    CASE v = "CONC" ->
           /\ ConcEndMatches(text, i)
           /\ ConcEndsSection(section.number, ConcEndGroup(text, i))
      [] v = "FG21" -> FgEndMatches(text, i, section.number)
      [] v = "EBA" ->
           /\ IsDigits(section.number)
           /\ EbaEndMatches(text, i, FormatInt(ParseInt(section.number) + 1))

\* the positions of page k, from the accepted start on page s onwards, at which
\* a heading ends the section
EndingsOn(s, k) ==
    LET section == config.sections[sec]
        text == pages[k].text
    IN  {i \in Positions(text) :
           /\ k = s => i >= StartEnd(variant, text, section)
           /\ EndsSectionAt(variant, text, i, section)}

\* the text of the section that starts on page s, up to the heading at
\* position h of page e
TextUpTo(s, e, h) ==
    IF e = s
    THEN Strip(SubSeq(pages[s].text,
                      StartEnd(variant, pages[s].text, config.sections[sec]), h - 1))
    ELSE SpanEndingAt(s, e, h).text

\* C30: for every variant, the text of a located span never contains text that
\* lies after the first section-ending heading following the accepted start,
\* whether that heading is on a later page, further down the start page itself,
\* or preceded on its page by a heading that does not end the section: the text
\* of the span is a beginning of the text from the start up to that heading.
C30_NothingAfterEndingHeading ==
    (call.op = "locate" /\ pc \in {"located", "segmented"}) =>
        LET s == Min(AcceptedStarts)
            ended == {k \in s..Len(pages) : EndingsOn(s, k) # {}}
        IN  ended # {} =>
              StartsWithAt(TextUpTo(s, Min(ended), Min(EndingsOn(s, Min(ended)))),
                           1, section_info.text)

====
